---- MODULE Spec2Model ----
(***************************************************************************)
(* NeuroGrid node client: the agent's task state machine                   *)
(* (node-client/src/core/agent.py), the Docker sandbox engine              *)
(* (node-client/src/container/docker_engine.py), the part of the crypto    *)
(* manager the agent drives (node-client/src/utils/crypto.py) and the      *)
(* coordinator client's request pipeline                                   *)
(* (node-client/src/utils/api_client.py).                                  *)
(*                                                                         *)
(* The agent runs on one asyncio event loop.  Every action below is the    *)
(* code that runs between two suspension points (an await that can yield)  *)
(* of one coroutine: the channel reader with the message handler it runs   *)
(* inline, one _execute_task coroutine per accepted task, and stop().      *)
(* The coordinator, the websocket connection, the Docker daemon and the    *)
(* inference engine are the environment: their outcomes are chosen with    *)
(* \E among the outcomes their interface allows.                           *)
(***************************************************************************)
EXTENDS Integers, Sequences, FiniteSets, TLC

\* ------------------------------------------------------------------ bounds
\* Number of task assignments the coordinator sends (ids 1..NumTasks, each
\* id assigned once).
NumTasks == 2
\* Number of distinct container ids the Docker daemon hands out.
MaxCids == 3
\* Largest value of max_concurrent_containers tried.
MaxContainersBound == 2
\* Calls of stop() counted, and changes of the connection state recorded by
\* the heartbeat loop.
MaxStopCalls == 3
MaxBeatTrace == 3

TaskIds == 1..NumTasks
Cids == 1..MaxCids
None == 0

\* model_type and required_vram_gb values the coordinator puts in a task.
ModelTypes == {"text", "audio"}
Vrams == {4, 9}

\* Configurations the node runs with; config_update payloads replace the
\* three keys below (dict.update with these keys present).
Configs ==
  { [supported_models |-> {"text", "image"}, max_vram_gb |-> 8, encrypt_results |-> TRUE],
    [supported_models |-> {"text", "image"}, max_vram_gb |-> 4, encrypt_results |-> TRUE],
    [supported_models |-> {"image"},         max_vram_gb |-> 8, encrypt_results |-> FALSE] }

\* Rejection reasons, as the code spells them.
BusyReason == "Node busy"
InvalidReason == "Task validation failed"
ErrorReason == "exception text"

VARIABLES
  \* ---- NodeAgent (agent.py 54-65)
  running,          \* self.running
  phase,            \* "constructed" | "started" | "stopping" | "stopped"
  current_task,     \* self.current_task: a task id, or None
  config,           \* self.config (the keys the task path reads)
  websocket,        \* self.websocket: "none" | "open" | "closed"
  rpc,              \* position of websocket_handler and of the handler it runs
  h,                \* task_data of the assignment being handled
  exec,             \* position of _execute_task(t), per task
  exec_container,   \* local `container` of _execute_task(t)
  sent,             \* per task: the envelopes sent about it, in order
  tasks_completed,  \* self.tasks_completed
  tasks_failed,     \* self.tasks_failed
  next_task,        \* coordinator: next task id to assign
  docker_engine,    \* self.docker_engine is not None
  first_sent,       \* type of the first envelope sent on the current connection
  heartbeat,        \* position of _heartbeat_loop (self.heartbeat_task)
  beat_trace,       \* connection states the heartbeats ran in, repeats dropped
  stop_calls,       \* calls of stop() so far
  stop_runs,        \* calls of stop() that went past its guard
  registration,     \* what register_node got from the coordinator in start()
  beat_failed,      \* the last heartbeat send failed
  last_irregular,   \* kind of the last inbound message no handler took
  extra_readers,    \* websocket_handler tasks alive besides the one rpc follows
  \* ---- CryptoManager (crypto.py 39-44)
  encryption_enabled,
  symmetric_key,    \* TRUE when self.symmetric_key is set
  jwt_secret,       \* self.jwt_secret
  token,            \* the token at hand: its claims and what its signature covers
  verified,         \* outcome of the last verify_jwt_token(token)
  data,             \* the data handed to encrypt_data(data, 'asymmetric')
  encrypted,        \* what encrypt_data returned for it
  decrypted,        \* what decrypt_data returned for that
  manager,          \* "up" while a process holds a CryptoManager, else "none"
  key_files,        \* crypto_dir: per key file the generation it holds, 0 = no file
  keys_in_use,      \* generations of self.symmetric_key, private_key, public_key
  keys_before,      \* the keys the previous process had in use when it ended
  backups,          \* the <<file, generation>> pairs copied into backup_* directories
  next_key,         \* the generation the next os.urandom / generate_private_key gives
  rotations,        \* calls of rotate_keys() so far
  rotate_result,    \* outcome of the last rotate_keys(): "none" | "ok" | "raised"
  \* ---- DockerEngine (docker_engine.py 81-85) and the Docker daemon
  max_containers,
  blocked_in,          \* the container whose exec_run the process is waiting in, or None
  active_containers,   \* keys of self.active_containers
  container_stats,     \* container_stats[c]['status']
  cached_status,       \* Container.status as cached in the tracked object
  rt_status,           \* daemon: "absent" | "created" | "running" | "exited"
  rt_name,             \* daemon: task id in the name neurogrid-task-<id>
  engine_ret,          \* outcome of the last DockerEngine call
  \* ---- CoordinatorClient and ConnectionManager (api_client.py 23-29, 76-82)
  now,                 \* time.time(), in seconds
  rate_limit_requests,
  request_timestamps,  \* self.request_timestamps
  request_count,       \* self.request_count
  max_retries,
  backoff_factor,
  connected,
  connection_failures,
  pc,                  \* per caller: position in _make_request
  retry_count,         \* per caller: the retry_count argument
  wake,                \* per caller: time the pending asyncio.sleep ends
  after_sleep,         \* per caller: the branch that is sleeping
  attempts,            \* per caller: network attempts of the current call
  sleeps,              \* per caller: delays slept in the current call
  streak,              \* per caller: kind of the responses of the current call
  start_failures,      \* per caller: connection_failures when the call began
  issued,              \* times of the network attempts of the last 60 seconds
  retry_delay          \* outcome of the last direct call of get_retry_delay

\* What only start(), stop(), the reader's connect and the heartbeat loop
\* change.
life_vars == <<heartbeat, beat_trace, stop_calls, stop_runs, registration,
               beat_failed, last_irregular, extra_readers>>
agent_vars == <<running, phase, current_task, config, websocket, rpc, h, exec,
                exec_container, sent, tasks_completed, tasks_failed, next_task,
                docker_engine, first_sent, life_vars>>
jwt_vars == <<jwt_secret, token, verified>>
codec_vars == <<data, encrypted, decrypted>>
keyfile_vars == <<manager, key_files, keys_in_use, keys_before, backups, next_key,
                  rotations, rotate_result>>
crypto_vars == <<encryption_enabled, symmetric_key, jwt_vars, codec_vars, keyfile_vars>>
client_vars == <<retry_delay, now, rate_limit_requests, request_timestamps, request_count,
                 max_retries, backoff_factor, connected, connection_failures,
                 pc, retry_count, wake, after_sleep, attempts, sleeps, streak,
                 start_failures, issued>>
engine_vars == <<max_containers, blocked_in, active_containers, container_stats,
                 cached_status, rt_status, rt_name, engine_ret>>
vars == <<agent_vars, crypto_vars, client_vars, engine_vars>>

NoMsg == [id |-> None, model_type |-> "", vram |-> 0]
Env(type, info) == [type |-> type, info |-> info]
Ret(op, ok, c) == [op |-> op, ok |-> ok, c |-> c]

\* ------------------------------------------------------------ DockerEngine

\* create_container's guard: len(self.active_containers) >= self.max_containers
CapReachedOffByOne == Cardinality(active_containers) > max_containers
CapReached == Cardinality(active_containers) >= max_containers

\* An id the daemon has not handed out to a container that still exists or
\* that the engine still tracks.
FreeCids == {c \in Cids : rt_status[c] = "absent" /\ c \notin active_containers}
NameTaken(t) == \E c \in Cids : rt_status[c] # "absent" /\ rt_name[c] = t

\* create_container(task_data): raises at the cap; otherwise asks the daemon
\* to create neurogrid-task-<id>, which fails on a name conflict or a daemon
\* error; on success the container is tracked with status 'created'.
create_container(t) ==
  IF CapReached
  THEN /\ engine_ret' = Ret("create", FALSE, None)
       /\ UNCHANGED <<max_containers, blocked_in, active_containers, container_stats,
                      cached_status, rt_status, rt_name>>
  ELSE \E daemon_ok \in BOOLEAN :
         IF daemon_ok /\ ~NameTaken(t) /\ FreeCids # {}
         THEN LET c == CHOOSE x \in FreeCids : \A y \in FreeCids : x <= y
              IN /\ rt_status' = [rt_status EXCEPT ![c] = "created"]
                 /\ rt_name' = [rt_name EXCEPT ![c] = t]
                 /\ active_containers' = active_containers \cup {c}
                 /\ container_stats' = [container_stats EXCEPT ![c] = "created"]
                 /\ cached_status' = [cached_status EXCEPT ![c] = "created"]
                 /\ engine_ret' = Ret("create", TRUE, c)
                 /\ UNCHANGED <<max_containers, blocked_in>>
         ELSE /\ engine_ret' = Ret("create", FALSE, None)
              /\ UNCHANGED <<max_containers, blocked_in, active_containers, container_stats,
                             cached_status, rt_status, rt_name>>

\* start_container(container_id): ValueError when untracked; container.start()
\* fails on a removed container or a daemon error (returns False).
start_container(c) ==
  IF c \notin active_containers
  THEN /\ engine_ret' = Ret("start", FALSE, c)
       /\ UNCHANGED <<max_containers, blocked_in, active_containers, container_stats,
                      cached_status, rt_status, rt_name>>
  ELSE \E daemon_ok \in BOOLEAN :
         IF daemon_ok /\ rt_status[c] # "absent"
         THEN /\ rt_status' = [rt_status EXCEPT ![c] = "running"]
              /\ container_stats' = [container_stats EXCEPT ![c] = "running"]
              /\ engine_ret' = Ret("start", TRUE, c)
              /\ UNCHANGED <<max_containers, blocked_in, active_containers, cached_status, rt_name>>
         ELSE /\ engine_ret' = Ret("start", FALSE, c)
              /\ UNCHANGED <<max_containers, blocked_in, active_containers, container_stats,
                             cached_status, rt_status, rt_name>>

\* execute_in_container(container_id, model, input): ValueError when
\* untracked; exec_run is refused by the daemon unless the container runs;
\* a non-zero exit code raises RuntimeError.
execute_in_container(c) ==
  /\ \E exit_zero \in BOOLEAN :
       engine_ret' = Ret("execute",
                         c \in active_containers /\ rt_status[c] = "running" /\ exit_zero,
                         c)
  /\ UNCHANGED <<max_containers, blocked_in, active_containers, container_stats,
                 cached_status, rt_status, rt_name>>

\* The state stop_container leaves: untracked -> True, nothing done;
\* container.stop() ends a running container, leaves a created or exited one
\* as it is and raises for a removed one or on a daemon error (-> False).
StopEffect(c, daemon_ok, rs, cs) ==
  IF c \notin active_containers THEN [ok |-> TRUE, rs |-> rs, cs |-> cs]
  ELSE IF daemon_ok /\ rs[c] # "absent"
       THEN [ok |-> TRUE,
             rs |-> [rs EXCEPT ![c] = IF @ = "running" THEN "exited" ELSE @],
             cs |-> [cs EXCEPT ![c] = "stopped"]]
       ELSE [ok |-> FALSE, rs |-> rs, cs |-> cs]

stop_container(c) ==
  \E daemon_ok \in BOOLEAN :
    LET e == StopEffect(c, daemon_ok, rt_status, container_stats)
    IN /\ rt_status' = e.rs
       /\ container_stats' = e.cs
       /\ engine_ret' = Ret("stop", e.ok, c)
       /\ UNCHANGED <<max_containers, blocked_in, active_containers, cached_status, rt_name>>

\* The state remove_container leaves, as a record of the engine's fields:
\* untracked -> True; stop first when the cached status says 'running';
\* container.remove(force) raises for a removed container, for a running one
\* without force, or on a daemon error (-> False, still tracked); on success
\* the container is gone and no longer tracked.
RemoveEffect(c, force, stop_ok, remove_ok, st) ==
  IF c \notin st.active THEN [st EXCEPT !.ok = TRUE]
  ELSE LET s == IF st.cached[c] = "running"
                THEN StopEffect(c, stop_ok, st.rs, st.cs)
                ELSE [ok |-> TRUE, rs |-> st.rs, cs |-> st.cs]
       IN IF remove_ok /\ s.rs[c] # "absent" /\ (force \/ s.rs[c] # "running")
          THEN [ok |-> TRUE,
                active |-> st.active \ {c},
                rs |-> [s.rs EXCEPT ![c] = "absent"],
                cs |-> [s.cs EXCEPT ![c] = "none"],
                cached |-> [st.cached EXCEPT ![c] = "none"]]
          ELSE [ok |-> FALSE, active |-> st.active, rs |-> s.rs, cs |-> s.cs,
                cached |-> st.cached]

EngineState == [ok |-> TRUE, active |-> active_containers, rs |-> rt_status,
                cs |-> container_stats, cached |-> cached_status]

SetEngineState(st) ==
  /\ active_containers' = st.active
  /\ rt_status' = st.rs
  /\ container_stats' = st.cs
  /\ cached_status' = st.cached

remove_container(c, force) ==
  \E stop_ok \in BOOLEAN, remove_ok \in BOOLEAN :
    LET st == RemoveEffect(c, force, stop_ok, remove_ok, EngineState)
    IN /\ SetEngineState(st)
       /\ engine_ret' = Ret("remove", st.ok, c)
       /\ UNCHANGED <<max_containers, blocked_in, rt_name>>

\* _cleanup_stale_containers: every container of the daemon named
\* neurogrid-task-* is removed with force; a failed removal is logged and
\* skipped.  `failing` are the containers whose removal the daemon refuses.
\* The engine's own tracking is not touched.
StaleEffect(failing, rs) ==
  [c \in Cids |-> IF rs[c] # "absent" /\ c \notin failing THEN "absent" ELSE rs[c]]

cleanup_stale_containers ==
  \E failing \in SUBSET {c \in Cids : rt_status[c] # "absent"} :
    /\ rt_status' = StaleEffect(failing, rt_status)
    /\ engine_ret' = Ret("cleanup_stale", TRUE, None)
    /\ UNCHANGED <<max_containers, blocked_in, active_containers, container_stats,
                   cached_status, rt_name>>

\* cleanup(): remove_container(id, force=True) for every tracked id, in
\* order, then _cleanup_stale_containers.
RECURSIVE RemoveAll(_, _, _, _)
RemoveAll(todo, stop_failing, failing, st) ==
  IF todo = {} THEN st
  ELSE LET c == CHOOSE x \in todo : \A y \in todo : x <= y
       IN RemoveAll(todo \ {c}, stop_failing, failing,
                    RemoveEffect(c, TRUE, c \notin stop_failing, c \notin failing, st))

cleanup ==
  \E stop_failing \in SUBSET {c \in active_containers : cached_status[c] = "running"},
     failing \in SUBSET active_containers,
     stale_failing \in SUBSET {c \in Cids : rt_status[c] # "absent"} :
    LET st == RemoveAll(active_containers, stop_failing, failing, EngineState)
    IN /\ SetEngineState([st EXCEPT !.rs = StaleEffect(stale_failing, st.rs)])
       /\ engine_ret' = Ret("cleanup", TRUE, None)
       /\ UNCHANGED <<max_containers, blocked_in, rt_name>>

\* get_active_containers(): container.reload() refreshes the cached status
\* of every tracked container the daemon still has.
get_active_containers ==
  /\ cached_status' = [c \in Cids |->
        IF c \in active_containers /\ rt_status[c] # "absent"
        THEN rt_status[c] ELSE cached_status[c]]
  /\ engine_ret' = Ret("get_active", TRUE, None)
  /\ UNCHANGED <<max_containers, blocked_in, active_containers, container_stats,
                 rt_status, rt_name>>

\* The daemon: the process of a running container ends by itself.
ContainerExits(c) ==
  /\ rt_status[c] = "running"
  /\ rt_status' = [rt_status EXCEPT ![c] = "exited"]
  /\ UNCHANGED <<max_containers, blocked_in, active_containers, container_stats,
                 cached_status, rt_name, engine_ret>>

\* ------------------------------------------------------------ CryptoManager

\* encrypt_data(data) as the agent calls it (method 'symmetric'), on the
\* kind of value the inference produced: "json" (a str or dict) or "opaque"
\* (any other object).  With encryption disabled the data comes back as
\* plain text (json.dumps raises for an opaque object); enabled, it raises
\* without a symmetric key or for data that is not bytes-like, and returns
\* base64 ciphertext otherwise.
encrypt_data(kind) ==
  IF ~encryption_enabled THEN (IF kind = "json" THEN "plain" ELSE "raise")
  ELSE IF ~symmetric_key THEN "raise"
  ELSE IF kind = "json" THEN "encrypted" ELSE "raise"

\* -------------------------------------- ConnectionManager, CoordinatorClient

\* Coroutines that call _make_request concurrently (the heartbeat loop and
\* the metrics loop).
NumCallers == 2
\* No request pipeline is entered and no idle time passes after MaxClock.
MaxClock == 60
\* No new call of _make_request starts once request_count has reached this.
MaxRequests == 3
\* Largest rate_limit_per_minute and max_retries tried.
MaxRateLimit == 2
MaxRetriesBound == 2
\* Failing responses stop once connection_failures has reached this value.
MaxConnFailures == 2
\* Largest number of consecutive failures get_retry_delay is called with.
MaxFailures == 1025

Callers == 1..NumCallers
\* _check_rate_limit keeps the timestamps with now - ts < 60.
WindowSeconds == 60
\* get_retry_delay: min(300, ...).
DelayCap == 300
\* backoff_factor is a float; float ** int raises OverflowError when the
\* result reaches 2^1024.
FloatMaxExp == 1024
\* backoff_factor values (powers of two, so that the float power is exact).
Bases == {1, 2, 4}
\* HTTP status codes the coordinator answers with.
Statuses == {200, 201, 401, 403, 404, 429, 500, 503}
\* Retry-After header values, in seconds.
RetryAfters == {1, 60}
\* Idle time that passes in one step, in seconds.
TickSteps == {60}

Min2(a, b) == IF a <= b THEN a ELSE b
Max2(a, b) == IF a >= b THEN a ELSE b
Log2(b) == CHOOSE k \in 0..2 : 2^k = b

\* ConnectionManager.get_retry_delay for backoff_factor = base and
\* connection_failures = n: min(300, base ** n), or OverflowError.  The power
\* is taken on the exponent (base = 2^k, base ** n = 2^(k*n)); above 2^10 the
\* minimum is 300 whatever the power.
get_retry_delay(base, n) ==
  LET e == Log2(base) * n
  IN IF e >= FloatMaxExp
     THEN [raised |-> TRUE, delay |-> 0]
     ELSE [raised |-> FALSE, delay |-> Min2(DelayCap, 2^Min2(e, 10))]

\* ConnectionManager.on_connection_success
on_connection_success_KeepCount ==
  /\ connected' = TRUE
  /\ connection_failures' = connection_failures
on_connection_success ==
  /\ connected' = TRUE
  /\ connection_failures' = 0

\* ConnectionManager.on_connection_failure
on_connection_failure ==
  /\ connected' = FALSE
  /\ connection_failures' = connection_failures + 1

\* The branch of _make_request a status code takes.
StatusClassRetryAll(status) ==
  IF status = 200 THEN "ok"
  ELSE IF status = 429 THEN "rate"
  ELSE "server"
StatusClass(status) ==
  IF status = 200 THEN "ok"
  ELSE IF status = 401 \/ status = 403 THEN "auth"
  ELSE IF status = 429 THEN "rate"
  ELSE IF status >= 500 THEN "server"
  ELSE "client"

\* The retry_count argument of the recursive call.
NextRetryCountStuck(rc) == rc
NextRetryCount(rc) == rc + 1

\* Timestamps _check_rate_limit keeps at time t.
Recent(seq, t) == SelectSeq(seq, LAMBDA ts : t - ts < WindowSeconds)

\* The responses the current call has had: all of one kind (a status class,
\* or "net" for network errors), or "mixed".
Streak(old, kind) == IF old = "none" \/ old = kind THEN kind ELSE "mixed"

\* _make_request(retry_count = rc) at time t, up to the await of
\* session.request: _check_rate_limit prunes the timestamps and raises
\* 'Rate limit exceeded' at the limit; otherwise the network call starts.
BeginAttempt(p, rc, att, t) ==
  /\ request_timestamps' = Recent(request_timestamps, t)
  /\ retry_count' = [retry_count EXCEPT ![p] = rc]
  /\ IF Len(Recent(request_timestamps, t)) >= rate_limit_requests
     THEN /\ pc' = [pc EXCEPT ![p] = "rate_limited"]
          /\ attempts' = [attempts EXCEPT ![p] = att]
          /\ issued' = Recent(issued, t)
     ELSE /\ pc' = [pc EXCEPT ![p] = "request"]
          /\ attempts' = [attempts EXCEPT ![p] = att + 1]
          /\ issued' = Append(Recent(issued, t), t)

\* A caller enters _make_request (retry_count = 0).
StartRequest(p) ==
  /\ pc[p] \in {"idle", "returned", "raised", "rate_limited"}
  /\ now <= MaxClock
  /\ request_count < MaxRequests
  /\ BeginAttempt(p, 0, 0, now)
  /\ sleeps' = [sleeps EXCEPT ![p] = <<>>]
  /\ streak' = [streak EXCEPT ![p] = "none"]
  /\ start_failures' = [start_failures EXCEPT ![p] = connection_failures]
  /\ UNCHANGED <<retry_delay, now, rate_limit_requests, request_count, max_retries,
                 backoff_factor, connected, connection_failures, wake,
                 after_sleep>>

\* asyncio.sleep(delay) begins in branch `branch`.
Sleep(p, delay, branch) ==
  /\ pc' = [pc EXCEPT ![p] = "sleeping"]
  /\ wake' = [wake EXCEPT ![p] = now + delay]
  /\ after_sleep' = [after_sleep EXCEPT ![p] = branch]
  /\ sleeps' = [sleeps EXCEPT ![p] = Append(@, delay)]

\* The request raises to the caller.
Raise(p) ==
  /\ pc' = [pc EXCEPT ![p] = "raised"]
  /\ UNCHANGED <<wake, after_sleep, sleeps>>

\* A response arrives: request_count, _track_request_time, then the branch
\* of the status code, up to its sleep, return or raise.
Respond(p, status) ==
  /\ pc[p] = "request"
  /\ StatusClass(status) = "server" => connection_failures < MaxConnFailures
  /\ request_count' = request_count + 1
  /\ request_timestamps' = Append(request_timestamps, now)
  /\ streak' = [streak EXCEPT ![p] = Streak(@, StatusClass(status))]
  /\ CASE StatusClass(status) = "ok" ->
            /\ on_connection_success
            /\ pc' = [pc EXCEPT ![p] = "returned"]
            /\ UNCHANGED <<wake, after_sleep, sleeps>>
       [] StatusClass(status) = "rate" ->
            /\ IF retry_count[p] < max_retries
               THEN \E retry_after \in RetryAfters : Sleep(p, retry_after, "429")
               ELSE Raise(p)
            /\ UNCHANGED <<connected, connection_failures>>
       [] StatusClass(status) = "server" ->
            /\ IF retry_count[p] < max_retries
               THEN LET d == get_retry_delay(backoff_factor, connection_failures)
                    IN IF d.raised THEN Raise(p) ELSE Sleep(p, d.delay, "5xx")
               ELSE Raise(p)
            /\ UNCHANGED <<connected, connection_failures>>
       [] OTHER ->
            /\ Raise(p)
            /\ UNCHANGED <<connected, connection_failures>>
  /\ UNCHANGED <<retry_delay, now, rate_limit_requests, max_retries, backoff_factor,
                 retry_count, attempts, start_failures, issued>>

\* session.request raises aiohttp.ClientError (connection refused, connect
\* timeout): on_connection_failure, then the delay and the sleep, or raise.
NetworkError(p) ==
  /\ pc[p] = "request"
  /\ connection_failures < MaxConnFailures
  /\ on_connection_failure
  /\ streak' = [streak EXCEPT ![p] = Streak(@, "net")]
  /\ IF retry_count[p] < max_retries
     THEN LET d == get_retry_delay(backoff_factor, connection_failures + 1)
          IN IF d.raised THEN Raise(p) ELSE Sleep(p, d.delay, "net")
     ELSE Raise(p)
  /\ UNCHANGED <<retry_delay, now, rate_limit_requests, request_timestamps, request_count,
                 max_retries, backoff_factor, retry_count, attempts,
                 start_failures, issued>>

\* asyncio.sleep returns, no earlier than its wake time: the 5xx branch
\* calls on_connection_failure; every branch then calls _make_request again
\* with retry_count + 1.
SleepEnds(p) ==
  /\ pc[p] = "sleeping"
  /\ now' = Max2(now, wake[p])
  /\ IF after_sleep[p] = "5xx"
     THEN on_connection_failure
     ELSE UNCHANGED <<connected, connection_failures>>
  /\ BeginAttempt(p, NextRetryCount(retry_count[p]), attempts[p], now')
  /\ UNCHANGED <<retry_delay, rate_limit_requests, request_count, max_retries,
                 backoff_factor, wake, after_sleep, sleeps, streak,
                 start_failures>>

\* Time passes while no step of the client runs.
Tick(d) ==
  /\ now + d <= MaxClock
  /\ now' = now + d
  /\ issued' = Recent(issued, now + d)
  /\ UNCHANGED <<retry_delay, rate_limit_requests, request_timestamps, request_count,
                 max_retries, backoff_factor, connected, connection_failures,
                 pc, retry_count, wake, after_sleep, attempts, sleeps, streak,
                 start_failures>>

\* One step that ends an await of _make_request for caller p.
Resume(p) ==
  \/ \E status \in Statuses : Respond(p, status)
  \/ NetworkError(p)
  \/ SleepEnds(p)

\* ---------------------------------------------------------------- NodeAgent

\* _validate_task: model_type in supported_models and
\* required_vram_gb <= max_vram_gb.
ValidateTaskOffByOne(mt, vram, cfg) ==
  mt \in cfg.supported_models /\ ~(vram >= cfg.max_vram_gb)
ValidateTask(mt, vram, cfg) ==
  mt \in cfg.supported_models /\ ~(vram > cfg.max_vram_gb)

\* websocket.send(json.dumps(message)): raises unless the connection is open.
CanSend == websocket = "open"
Sent(t, type, info) ==
  /\ sent' = [sent EXCEPT ![t] = Append(@, Env(type, info))]
  /\ first_sent' = IF first_sent = "none" THEN type ELSE first_sent

\* Counters of the history kept for the properties, counted up to a bound.
Counted(n, max) == IF n < max THEN n + 1 ELSE n

\* stop()'s guard: `if not self.running: return`.
AlreadyStoppedNever == FALSE
AlreadyStopped == ~running

\* What register_node can get back: the status of the response and, for a
\* 200, the `success` field of its body.  A 401, a 403 and a 5xx (after the
\* retries) leave _make_request as exceptions.
NoResponse == [status |-> 0, success |-> FALSE]
Responses == {[status |-> st, success |-> ok] :
                st \in {200, 401, 403, 500}, ok \in BOOLEAN}

\* register_node and _register_with_coordinator return normally: a 200 whose
\* body has success set.
RegisteredAny200(resp) == resp.status = 200
Registered(resp) == resp.status = 200 /\ resp.success

\* start(): sets running, initializes the components (the Docker engine
\* removes stale containers), registers, starts the background loops and
\* spawns websocket_handler.  A rejected registration or a failed
\* initialization runs stop() and raises.
Start ==
  /\ phase = "constructed"
  /\ \E initialized \in BOOLEAN, resp \in Responses :
       /\ registration' = IF initialized THEN resp ELSE NoResponse
       /\ IF initialized /\ Registered(resp)
          THEN /\ running' = TRUE
               /\ phase' = "started"
               /\ rpc' = "connecting"
               /\ heartbeat' = "sending"
               /\ UNCHANGED <<stop_calls, stop_runs>>
          ELSE /\ running' = FALSE
               /\ phase' = "stopped"
               /\ rpc' = rpc
               /\ heartbeat' = heartbeat
               /\ stop_calls' = Counted(stop_calls, MaxStopCalls)
               /\ stop_runs' = Counted(stop_runs, MaxStopCalls)
  /\ IF docker_engine THEN cleanup_stale_containers ELSE UNCHANGED engine_vars
  /\ UNCHANGED <<current_task, config, websocket, h, exec, exec_container, sent,
                 first_sent, tasks_completed, tasks_failed, next_task,
                 docker_engine, beat_trace, beat_failed, last_irregular, extra_readers,
                 crypto_vars,
                 client_vars>>

\* stop(), a call that goes past the guard, up to its first suspension:
\* running = False, then await self.websocket.close().
StopBegin ==
  /\ phase \in {"started", "stopping", "stopped"}
  /\ ~AlreadyStopped
  /\ running' = FALSE
  /\ phase' = "stopping"
  /\ websocket' = IF websocket = "open" THEN "closed" ELSE websocket
  /\ stop_calls' = Counted(stop_calls, MaxStopCalls)
  /\ stop_runs' = Counted(stop_runs, MaxStopCalls)
  /\ UNCHANGED <<current_task, config, rpc, h, exec, exec_container, sent,
                 first_sent, tasks_completed, tasks_failed, next_task,
                 docker_engine, heartbeat, beat_trace, registration, beat_failed, last_irregular, extra_readers,
                 crypto_vars, client_vars, engine_vars>>

\* stop(), a call that finds the agent not running (a second call after the
\* first returned, or one created by the signal handler while the first is
\* suspended): it returns at the guard.
StopReturnsAtGuard ==
  /\ phase \in {"stopping", "stopped"}
  /\ AlreadyStopped
  /\ stop_calls < MaxStopCalls
  /\ stop_calls' = stop_calls + 1
  /\ UNCHANGED <<running, phase, current_task, config, websocket, rpc, h, exec,
                 exec_container, sent, first_sent, tasks_completed, tasks_failed,
                 next_task, docker_engine, heartbeat, beat_trace, stop_runs,
                 registration, beat_failed, last_irregular, extra_readers, crypto_vars, client_vars,
                 engine_vars>>

\* stop(), the rest: background loops cancelled, docker_engine.cleanup().
StopFinish ==
  /\ phase = "stopping"
  /\ phase' = "stopped"
  /\ heartbeat' = IF heartbeat \in {"sending", "sleeping"} THEN "cancelled"
                  ELSE heartbeat
  /\ IF docker_engine THEN cleanup ELSE UNCHANGED engine_vars
  /\ UNCHANGED <<running, current_task, config, websocket, rpc, h, exec,
                 exec_container, sent, first_sent, tasks_completed, tasks_failed,
                 next_task, docker_engine, beat_trace, stop_calls, stop_runs,
                 registration, beat_failed, last_irregular, extra_readers, crypto_vars, client_vars>>

\* The connection state a heartbeat ran in, appended when it differs from the
\* last one recorded.
Traced(trace, ws) ==
  IF Len(trace) < MaxBeatTrace /\ (trace = <<>> \/ trace[Len(trace)] # ws)
  THEN Append(trace, ws)
  ELSE trace

\* _heartbeat_loop: send_heartbeat returns (it catches every failure of the
\* request), or raises inside the loop's try; either way the loop goes on to
\* its sleep.
HeartbeatSent ==
  /\ heartbeat = "sending"
  /\ heartbeat' = "sleeping"
  /\ beat_trace' = Traced(beat_trace, websocket)
  /\ beat_failed' = FALSE
  /\ UNCHANGED <<running, phase, current_task, config, websocket, rpc, h, exec,
                 exec_container, sent, first_sent, tasks_completed, tasks_failed,
                 next_task, docker_engine, stop_calls, stop_runs, registration,
                 last_irregular, extra_readers, crypto_vars, client_vars, engine_vars>>

\* _heartbeat_loop when the heartbeat fails: send_heartbeat catches the
\* failure of its request and returns {'success': False}, or building the
\* payload raises and the loop's `except Exception` logs it; the loop goes
\* on to its sleep.
HeartbeatFailsEndsLoop ==
  /\ heartbeat = "sending"
  /\ heartbeat' = "exited"
  /\ beat_failed' = TRUE
  /\ UNCHANGED <<running, phase, current_task, config, websocket, rpc, h, exec,
                 exec_container, sent, first_sent, tasks_completed, tasks_failed,
                 next_task, docker_engine, beat_trace, stop_calls, stop_runs,
                 registration, last_irregular, extra_readers, crypto_vars, client_vars, engine_vars>>
HeartbeatFails ==
  /\ heartbeat = "sending"
  /\ heartbeat' = "sleeping"
  /\ beat_failed' = TRUE
  /\ UNCHANGED <<running, phase, current_task, config, websocket, rpc, h, exec,
                 exec_container, sent, first_sent, tasks_completed, tasks_failed,
                 next_task, docker_engine, beat_trace, stop_calls, stop_runs,
                 registration, last_irregular, extra_readers, crypto_vars, client_vars, engine_vars>>

\* _heartbeat_loop: the sleep ends and `while self.running` is tested.
HeartbeatWakes ==
  /\ heartbeat = "sleeping"
  /\ heartbeat' = IF running THEN "sending" ELSE "exited"
  /\ UNCHANGED <<running, phase, current_task, config, websocket, rpc, h, exec,
                 exec_container, sent, first_sent, tasks_completed, tasks_failed,
                 next_task, docker_engine, beat_trace, stop_calls, stop_runs,
                 registration, beat_failed, last_irregular, extra_readers, crypto_vars, client_vars,
                 engine_vars>>

\* The first envelope of a new connection: websocket_handler sends node_auth
\* right after `self.websocket = websocket`.
OpeningEnvelopeMissing == "none"
OpeningEnvelope == "node_auth"

\* Where the reader continues after a connection ended or a sleep finished:
\* at the top of `while self.running`.
LoopAgainLeaves == "exited"
LoopAgain == "connecting"

\* websocket_handler: `while self.running`, websockets.connect, node_auth.
Connect ==
  /\ rpc = "connecting"
  /\ running
  /\ websocket' = "open"
  /\ first_sent' = OpeningEnvelope
  /\ rpc' = "listening"
  /\ UNCHANGED <<running, phase, current_task, config, h, exec, exec_container,
                 sent, tasks_completed, tasks_failed, next_task, docker_engine,
                 life_vars, crypto_vars, client_vars, engine_vars>>

\* websocket_handler: websockets.connect raises (coordinator unreachable,
\* handshake refused); `except Exception` sleeps 10 seconds.
ConnectFails ==
  /\ rpc = "connecting"
  /\ running
  /\ rpc' = "waiting"
  /\ UNCHANGED <<running, phase, current_task, config, websocket, h, exec,
                 exec_container, sent, first_sent, tasks_completed, tasks_failed,
                 next_task, docker_engine, life_vars, crypto_vars, client_vars,
                 engine_vars>>

\* websocket_handler: the sleep of an except branch ends; the loop goes round.
ReaderWakes ==
  /\ rpc = "waiting"
  /\ rpc' = LoopAgain
  /\ UNCHANGED <<running, phase, current_task, config, websocket, h, exec,
                 exec_container, sent, first_sent, tasks_completed, tasks_failed,
                 next_task, docker_engine, life_vars, crypto_vars, client_vars,
                 engine_vars>>

\* websocket_handler: the loop condition fails after stop().
ReaderExit ==
  /\ rpc = "connecting"
  /\ ~running
  /\ rpc' = "exited"
  /\ UNCHANGED <<running, phase, current_task, config, websocket, h, exec,
                 exec_container, sent, first_sent, tasks_completed, tasks_failed, next_task,
                 docker_engine, life_vars, crypto_vars, client_vars, engine_vars>>

\* The connection drops (coordinator restart, network).
Disconnect ==
  /\ websocket = "open"
  /\ websocket' = "closed"
  /\ UNCHANGED <<running, phase, current_task, config, rpc, h, exec,
                 exec_container, sent, first_sent, tasks_completed, tasks_failed, next_task,
                 docker_engine, life_vars, crypto_vars, client_vars, engine_vars>>

\* websocket_handler: `async for` ends (normal close: the loop goes round at
\* once) or raises ConnectionClosed (the loop sleeps 5 seconds first).
ReaderSeesClose ==
  /\ rpc = "listening"
  /\ websocket = "closed"
  /\ \E normal \in BOOLEAN : rpc' = IF normal THEN LoopAgain ELSE "waiting"
  /\ UNCHANGED <<running, phase, current_task, config, websocket, h, exec,
                 exec_container, sent, first_sent, tasks_completed, tasks_failed, next_task,
                 docker_engine, life_vars, crypto_vars, client_vars, engine_vars>>

\* An exception leaves the handler: `async with` closes the connection and
\* the reader sleeps before it reconnects.
HandlerRaises ==
  /\ websocket' = IF websocket = "open" THEN "closed" ELSE websocket
  /\ rpc' = "waiting"
  /\ h' = NoMsg

\* _handle_task_assignment, accepted branch up to the await of the
\* acknowledgment: self.current_task = task_data.
TakeSlotSpawnFirst(t) ==
  /\ current_task' = t
  /\ exec' = [exec EXCEPT ![t] = "start"]
TakeSlot(t) ==
  /\ current_task' = t
  /\ exec' = exec

\* A task_assignment arrives: _handle_websocket_message and
\* _handle_task_assignment up to the handler's first send.
RecvAssignment(mt, vram) ==
  /\ rpc = "listening"
  /\ websocket = "open"
  /\ next_task <= NumTasks
  /\ next_task' = next_task + 1
  /\ h' = [id |-> next_task, model_type |-> mt, vram |-> vram]
  /\ IF current_task # None
     THEN /\ rpc' = "h_busy"
          /\ UNCHANGED <<current_task, exec>>
     ELSE IF ~ValidateTask(mt, vram, config)
          THEN /\ rpc' = "h_invalid"
               /\ UNCHANGED <<current_task, exec>>
          ELSE /\ rpc' = "h_accept"
               /\ TakeSlot(next_task)
  /\ UNCHANGED <<running, phase, config, websocket, exec_container, sent, first_sent,
                 tasks_completed, tasks_failed, docker_engine, life_vars, crypto_vars, client_vars,
                 engine_vars>>

\* _send_task_rejection(id, 'Node busy') and return; the send is outside the
\* try block, so a failed send leaves the handler.
SendBusyRejectionFallThrough ==
  /\ rpc = "h_busy"
  /\ IF CanSend
     THEN /\ Sent(h.id, "task_rejected", BusyReason)
          /\ rpc' = "h_accept"
          /\ current_task' = h.id
          /\ UNCHANGED <<websocket, h>>
     ELSE /\ HandlerRaises
          /\ UNCHANGED <<sent, first_sent, current_task>>
  /\ UNCHANGED <<running, phase, config, exec, exec_container,
                 tasks_completed, tasks_failed, next_task, docker_engine, life_vars,
                 crypto_vars, client_vars, engine_vars>>
SendBusyRejection ==
  /\ rpc = "h_busy"
  /\ IF CanSend
     THEN /\ Sent(h.id, "task_rejected", BusyReason)
          /\ rpc' = "listening"
          /\ h' = NoMsg
          /\ UNCHANGED websocket
     ELSE /\ HandlerRaises
          /\ UNCHANGED <<sent, first_sent>>
  /\ UNCHANGED <<running, phase, current_task, config, exec, exec_container,
                 tasks_completed, tasks_failed, next_task, docker_engine, life_vars,
                 crypto_vars, client_vars, engine_vars>>

\* _send_task_rejection(id, 'Task validation failed') and return; a failed
\* send is caught by the handler's except block.
SendInvalidRejection ==
  /\ rpc = "h_invalid"
  /\ IF CanSend
     THEN /\ Sent(h.id, "task_rejected", InvalidReason)
          /\ rpc' = "listening"
          /\ h' = NoMsg
     ELSE /\ rpc' = "h_err"
          /\ UNCHANGED <<sent, first_sent, h>>
  /\ UNCHANGED <<running, phase, current_task, config, websocket, exec,
                 exec_container, tasks_completed, tasks_failed, next_task,
                 docker_engine, life_vars, crypto_vars, client_vars, engine_vars>>

\* _send_task_acceptance(id), then asyncio.create_task(_execute_task); a
\* failed send is caught by the handler's except block.
SendAcceptance ==
  /\ rpc = "h_accept"
  /\ IF CanSend
     THEN /\ Sent(h.id, "task_accepted", "")
          /\ exec' = [exec EXCEPT ![h.id] = "start"]
          /\ rpc' = "listening"
          /\ h' = NoMsg
     ELSE /\ rpc' = "h_err"
          /\ UNCHANGED <<sent, first_sent, exec, h>>
  /\ UNCHANGED <<running, phase, current_task, config, websocket,
                 exec_container, tasks_completed, tasks_failed, next_task,
                 docker_engine, life_vars, crypto_vars, client_vars, engine_vars>>

\* except Exception: _send_task_rejection(id, str(e)); a failed send leaves
\* the handler.
SendErrorRejection ==
  /\ rpc = "h_err"
  /\ IF CanSend
     THEN /\ Sent(h.id, "task_rejected", ErrorReason)
          /\ rpc' = "listening"
          /\ h' = NoMsg
          /\ UNCHANGED websocket
     ELSE /\ HandlerRaises
          /\ UNCHANGED <<sent, first_sent>>
  /\ UNCHANGED <<running, phase, current_task, config, exec, exec_container,
                 tasks_completed, tasks_failed, next_task, docker_engine, life_vars,
                 crypto_vars, client_vars, engine_vars>>

\* A task_cancel arrives: _handle_task_cancellation clears the bookkeeping
\* when the id is the tracked task's; the execution is not interrupted.
RecvCancelAnyId(t) ==
  /\ rpc = "listening"
  /\ websocket = "open"
  /\ current_task' = None
  /\ UNCHANGED <<running, phase, config, websocket, rpc, h, exec,
                 exec_container, sent, first_sent, tasks_completed,
                 tasks_failed, next_task, docker_engine, life_vars,
                 crypto_vars, client_vars, engine_vars>>
RecvCancel(t) ==
  /\ rpc = "listening"
  /\ websocket = "open"
  /\ current_task' = IF current_task # None /\ current_task = t
                     THEN None ELSE current_task
  /\ UNCHANGED <<running, phase, config, websocket, rpc, h, exec,
                 exec_container, sent, first_sent, tasks_completed, tasks_failed, next_task,
                 docker_engine, life_vars, crypto_vars, client_vars, engine_vars>>

\* An envelope arrives whose type is none of task_assignment, task_cancel,
\* config_update, node_command: _handle_websocket_message logs a warning.
RecvUnknownRaises ==
  /\ rpc = "listening"
  /\ websocket = "open"
  /\ last_irregular' = "unknown_type"
  /\ HandlerRaises
  /\ UNCHANGED <<running, phase, current_task, config, exec, exec_container,
                 sent, first_sent, tasks_completed, tasks_failed, next_task,
                 docker_engine, heartbeat, beat_trace, stop_calls, stop_runs,
                 registration, beat_failed, extra_readers, crypto_vars, client_vars,
                 engine_vars>>
RecvUnknown ==
  /\ rpc = "listening"
  /\ websocket = "open"
  /\ last_irregular' = "unknown_type"
  /\ UNCHANGED <<running, phase, current_task, config, websocket, rpc, h, exec,
                 exec_container, sent, first_sent, tasks_completed,
                 tasks_failed, next_task, docker_engine, heartbeat, beat_trace,
                 stop_calls, stop_runs, registration, beat_failed, extra_readers, crypto_vars,
                 client_vars, engine_vars>>

\* Messages that are not a well-formed envelope: text that is not JSON, and
\* a task_assignment whose payload has no 'id'.
MalformedKinds == {"bad_json", "no_id"}

\* A malformed message arrives.  json.loads raises in the reader's
\* `async for` body; task_data['id'] raises KeyError in
\* _handle_task_assignment before its try block, busy or idle.  Either
\* exception leaves `async with`, which closes the connection, and the
\* reader sleeps in `except Exception`.
RecvMalformed(kind) ==
  /\ rpc = "listening"
  /\ websocket = "open"
  /\ last_irregular' = kind
  /\ HandlerRaises
  /\ UNCHANGED <<running, phase, current_task, config, exec, exec_container,
                 sent, first_sent, tasks_completed, tasks_failed, next_task,
                 docker_engine, heartbeat, beat_trace, stop_calls, stop_runs,
                 registration, beat_failed, extra_readers, crypto_vars, client_vars,
                 engine_vars>>

\* A config_update arrives: _apply_config_updates.
RecvConfigUpdate(cfg) ==
  /\ rpc = "listening"
  /\ websocket = "open"
  /\ config' = cfg
  /\ UNCHANGED <<running, phase, current_task, websocket, rpc, h, exec,
                 exec_container, sent, first_sent, tasks_completed, tasks_failed, next_task,
                 docker_engine, life_vars, crypto_vars, client_vars, engine_vars>>

\* finally: self.current_task = None
ReleaseSlotMissing == UNCHANGED current_task
ReleaseSlot == current_task' = None

\* _execute_task: await self._send_task_status(task_id, 'running').
SendStatus(t) ==
  /\ exec[t] = "start"
  /\ IF CanSend
     THEN /\ Sent(t, "task_status", "running")
          /\ exec' = [exec EXCEPT ![t] = "load"]
     ELSE /\ exec' = [exec EXCEPT ![t] = "failed"]
          /\ UNCHANGED <<sent, first_sent>>
  /\ UNCHANGED <<running, phase, current_task, config, websocket, rpc, h,
                 exec_container, tasks_completed, tasks_failed, next_task,
                 docker_engine, life_vars, crypto_vars, client_vars, engine_vars>>

\* _execute_task: model = await self.model_loader.load_model(model_name);
\* the inference engine returns a model or raises.
LoadModel(t) ==
  /\ exec[t] = "load"
  /\ \E ok \in BOOLEAN : exec' = [exec EXCEPT ![t] = IF ok THEN "run" ELSE "failed"]
  /\ UNCHANGED <<running, phase, current_task, config, websocket, rpc, h,
                 exec_container, sent, first_sent, tasks_completed, tasks_failed, next_task,
                 docker_engine, life_vars, crypto_vars, client_vars, engine_vars>>

\* _execute_task from the inference result to the await of the result send:
\* encrypt_data when encrypt_results is set, then _send_task_result, whose
\* json.dumps raises for an opaque result and whose send raises on a closed
\* connection.  Any exception enters the except block.
ReportResultAfterRelease(t, kind) ==
  LET payload == IF config.encrypt_results THEN encrypt_data(kind)
                 ELSE IF kind = "json" THEN "plain" ELSE "opaque"
  IN IF payload \in {"raise", "opaque"} \/ ~CanSend
     THEN /\ exec' = [exec EXCEPT ![t] = "failed"]
          /\ UNCHANGED <<sent, first_sent, current_task>>
     ELSE /\ current_task' = None
          /\ Sent(t, "task_result", payload)
          /\ exec' = [exec EXCEPT ![t] = "result_sent"]
ReportResult(t, kind) ==
  LET payload == IF config.encrypt_results THEN encrypt_data(kind)
                 ELSE IF kind = "json" THEN "plain" ELSE "opaque"
  IN IF payload \in {"raise", "opaque"} \/ ~CanSend
     THEN /\ exec' = [exec EXCEPT ![t] = "failed"]
          /\ UNCHANGED <<sent, first_sent, current_task>>
     ELSE /\ Sent(t, "task_result", payload)
          /\ exec' = [exec EXCEPT ![t] = "result_sent"]
          /\ UNCHANGED current_task

\* _execute_task without a Docker engine: _execute_direct returns a result
\* (a str or dict, or some other object) or raises.
RunDirect(t) ==
  /\ exec[t] = "run"
  /\ ~docker_engine
  /\ \E outcome \in {"json", "opaque", "raise"} :
       IF outcome = "raise"
       THEN /\ exec' = [exec EXCEPT ![t] = "failed"]
            /\ UNCHANGED <<sent, first_sent, current_task>>
       ELSE ReportResult(t, outcome)
  /\ UNCHANGED <<running, phase, config, websocket, rpc, h, exec_container,
                 tasks_completed, tasks_failed, next_task, docker_engine, life_vars,
                 crypto_vars, client_vars, engine_vars>>

\* _execute_task with a Docker engine: docker_engine.create_container.
RunCreateContainer(t) ==
  /\ exec[t] = "run"
  /\ docker_engine
  /\ create_container(t)
  /\ IF engine_ret'.ok
     THEN /\ exec' = [exec EXCEPT ![t] = "in_container"]
          /\ exec_container' = [exec_container EXCEPT ![t] = engine_ret'.c]
     ELSE /\ exec' = [exec EXCEPT ![t] = "failed"]
          /\ UNCHANGED exec_container
  /\ UNCHANGED <<running, phase, current_task, config, websocket, rpc, h, sent, first_sent,
                 tasks_completed, tasks_failed, next_task, docker_engine, life_vars,
                 crypto_vars, client_vars>>

\* _execute_task with a Docker engine: docker_engine.execute_in_container on
\* the container just created, then the result path.
RunInContainer(t) ==
  /\ exec[t] = "in_container"
  /\ execute_in_container(exec_container[t])
  /\ IF engine_ret'.ok
     THEN ReportResult(t, "json")
     ELSE /\ exec' = [exec EXCEPT ![t] = "failed"]
          /\ UNCHANGED <<sent, first_sent, current_task>>
  /\ UNCHANGED <<running, phase, config, websocket, rpc, h, exec_container,
                 tasks_completed, tasks_failed, next_task, docker_engine, life_vars,
                 crypto_vars, client_vars>>

\* _execute_task after the result send returned: tasks_completed += 1, then
\* the finally block.
FinishTask(t) ==
  /\ exec[t] = "result_sent"
  /\ tasks_completed' = tasks_completed + 1
  /\ ReleaseSlot
  /\ exec' = [exec EXCEPT ![t] = "done"]
  /\ UNCHANGED <<running, phase, config, websocket, rpc, h, exec_container,
                 sent, first_sent, tasks_failed, next_task, docker_engine, life_vars, crypto_vars, client_vars,
                 engine_vars>>

\* except Exception: await self._send_task_error(task_id, str(e)).  When this
\* send raises too, the exception leaves the coroutine through the finally
\* block and tasks_failed is not counted.
SendTaskError(t) ==
  /\ exec[t] = "failed"
  /\ IF CanSend
     THEN /\ Sent(t, "task_error", "")
          /\ exec' = [exec EXCEPT ![t] = "error_sent"]
          /\ UNCHANGED current_task
     ELSE /\ ReleaseSlot
          /\ exec' = [exec EXCEPT ![t] = "done"]
          /\ UNCHANGED <<sent, first_sent>>
  /\ UNCHANGED <<running, phase, config, websocket, rpc, h, exec_container,
                 tasks_completed, tasks_failed, next_task, docker_engine, life_vars,
                 crypto_vars, client_vars, engine_vars>>

\* except block after the error send returned: tasks_failed += 1, then the
\* finally block.
FinishFailed(t) ==
  /\ exec[t] = "error_sent"
  /\ tasks_failed' = tasks_failed + 1
  /\ ReleaseSlot
  /\ exec' = [exec EXCEPT ![t] = "done"]
  /\ UNCHANGED <<running, phase, config, websocket, rpc, h, exec_container,
                 sent, first_sent, tasks_completed, next_task, docker_engine, life_vars, crypto_vars, client_vars,
                 engine_vars>>

\* One step of the coroutine _execute_task(t).
ExecStep(t) ==
  \/ SendStatus(t)
  \/ LoadModel(t)
  \/ RunDirect(t)
  \/ RunCreateContainer(t)
  \/ RunInContainer(t)
  \/ FinishTask(t)
  \/ SendTaskError(t)
  \/ FinishFailed(t)

\* ------------------------------------------------------------ specifications

\* The engine as constructed: nothing tracked; the daemon may still hold a
\* neurogrid-task-* container of an earlier process.
EngineInit ==
  /\ max_containers \in 1..MaxContainersBound
  /\ blocked_in = None
  /\ active_containers = {}
  /\ container_stats = [c \in Cids |-> "none"]
  /\ cached_status = [c \in Cids |-> "none"]
  /\ \E stale \in BOOLEAN :
       /\ rt_status = [c \in Cids |-> IF stale /\ c = MaxCids THEN "exited" ELSE "absent"]
       /\ rt_name = [c \in Cids |-> IF stale /\ c = MaxCids THEN 1 ELSE None]
  /\ engine_ret = Ret("none", TRUE, None)

\* No token has been issued or verified yet.
NoClaims == [iat |-> 0, exp |-> 0, iss |-> "", sub |-> "", aud |-> ""]
NoToken == [claims |-> NoClaims, key |-> 0, signed |-> NoClaims]
NotVerified == [called |-> FALSE, raised |-> FALSE, value |-> NoClaims]
JwtIdle ==
  /\ jwt_secret = 1
  /\ token = NoToken
  /\ verified = NotVerified

\* Nothing has been encrypted yet.
NoData == [type |-> "none", size |-> 0, text |-> ""]
NoCipher == [chars |-> 0,
             bytes |-> [path |-> "none", size |-> 0, plain |-> [size |-> 0, text |-> ""]]]
CodecIdle ==
  /\ data = NoData
  /\ encrypted = NoCipher
  /\ decrypted = NoData

\* The key files of crypto_dir and the keys a CryptoManager holds.  A key is
\* named by its generation: every os.urandom(32) and every
\* rsa.generate_private_key gives a generation never seen before.
KeyFileNames == {"symmetric.key", "private.pem", "public.pem"}
NoFiles == [f \in KeyFileNames |-> 0]
NoKeys == [symmetric |-> 0, private |-> 0, public |-> 0]

\* A manager constructed in an empty crypto_dir whose saves all succeeded.
KeyFilesIdle ==
  /\ manager = "up"
  /\ key_files = [f \in KeyFileNames |-> IF f = "symmetric.key" THEN 1 ELSE 2]
  /\ keys_in_use = [symmetric |-> IF symmetric_key THEN 1 ELSE 0, private |-> 2, public |-> 2]
  /\ keys_before = NoKeys
  /\ backups = {}
  /\ next_key = 3
  /\ rotations = 0
  /\ rotate_result = "none"

KeysIdle == JwtIdle /\ CodecIdle /\ KeyFilesIdle

\* CryptoManager as constructed: _initialize_crypto raises out of the
\* constructor when encryption is enabled and the keys cannot be set up.
CryptoInit ==
  /\ encryption_enabled \in BOOLEAN
  /\ symmetric_key \in BOOLEAN
  /\ encryption_enabled => symmetric_key
  /\ KeysIdle

\* NodeAgent.__init__ with the default configuration.
AgentInit ==
  /\ running = FALSE
  /\ phase = "constructed"
  /\ current_task = None
  /\ config = [supported_models |-> {"text", "image"}, max_vram_gb |-> 8,
               encrypt_results |-> TRUE]
  /\ websocket = "none"
  /\ rpc = "none"
  /\ h = NoMsg
  /\ exec = [t \in TaskIds |-> "none"]
  /\ exec_container = [t \in TaskIds |-> None]
  /\ sent = [t \in TaskIds |-> <<>>]
  /\ tasks_completed = 0
  /\ tasks_failed = 0
  /\ next_task = 1
  /\ first_sent = "none"
  /\ heartbeat = "none"
  /\ beat_trace = <<>>
  /\ stop_calls = 0
  /\ stop_runs = 0
  /\ registration = NoResponse
  /\ beat_failed = FALSE
  /\ last_irregular = "none"
  /\ extra_readers = 0

\* enable_docker unset: no engine, any crypto setup.  enable_docker set: an
\* engine with any cap and daemon state, keys set up.
\* CoordinatorClient.__init__ for a configuration: nothing requested yet.
ClientInit ==
  /\ now = 0
  /\ rate_limit_requests \in 1..MaxRateLimit
  /\ request_timestamps = <<>>
  /\ request_count = 0
  /\ max_retries \in 0..MaxRetriesBound
  /\ backoff_factor \in Bases
  /\ connected = FALSE
  /\ connection_failures = 0
  /\ pc = [p \in Callers |-> "idle"]
  /\ retry_count = [p \in Callers |-> 0]
  /\ wake = [p \in Callers |-> 0]
  /\ after_sleep = [p \in Callers |-> "none"]
  /\ attempts = [p \in Callers |-> 0]
  /\ sleeps = [p \in Callers |-> <<>>]
  /\ streak = [p \in Callers |-> "none"]
  /\ start_failures = [p \in Callers |-> 0]
  /\ issued = <<>>
  /\ retry_delay = [called |-> FALSE, raised |-> FALSE, delay |-> 0]

\* One configuration of the client, for the specifications that do not run
\* the request pipeline.
ClientIdle ==
  /\ ClientInit
  /\ rate_limit_requests = MaxRateLimit
  /\ max_retries = MaxRetriesBound
  /\ backoff_factor = 2

Init ==
  /\ AgentInit
  /\ docker_engine \in BOOLEAN
  /\ CryptoInit
  /\ EngineInit
  /\ ClientIdle
  /\ ~docker_engine => (max_containers = 1 /\ rt_status[MaxCids] = "absent")
  /\ docker_engine => (encryption_enabled /\ symmetric_key)

Next ==
  \/ Start
  \/ StopBegin
  \/ StopFinish
  \/ Connect
  \/ ConnectFails
  \/ ReaderWakes
  \/ ReaderExit
  \/ Disconnect
  \/ ReaderSeesClose
  \/ \E mt \in ModelTypes, vram \in Vrams : RecvAssignment(mt, vram)
  \/ SendBusyRejection
  \/ SendInvalidRejection
  \/ SendAcceptance
  \/ SendErrorRejection
  \/ \E t \in TaskIds : RecvCancel(t)
  \/ \E cfg \in Configs : RecvConfigUpdate(cfg)
  \/ \E t \in TaskIds : ExecStep(t)

Spec == Init /\ [][Next]_vars

\* The event loop runs every coroutine that is ready, and every awaited call
\* of _execute_task returns or raises.
LiveSpec == Spec /\ \A t \in TaskIds : WF_vars(ExecStep(t))

\* ------------------------------------------- the engine under any caller

\* DockerEngine's public operations called in any order with any argument.
CallCreate(t) == create_container(t) /\ UNCHANGED <<agent_vars, crypto_vars, client_vars>>
CallStart(c) == start_container(c) /\ UNCHANGED <<agent_vars, crypto_vars, client_vars>>
CallExecute(c) == execute_in_container(c) /\ UNCHANGED <<agent_vars, crypto_vars, client_vars>>
CallStop(c) == stop_container(c) /\ UNCHANGED <<agent_vars, crypto_vars, client_vars>>
CallRemove(c, force) == remove_container(c, force) /\ UNCHANGED <<agent_vars, crypto_vars, client_vars>>
CallCleanupStale == cleanup_stale_containers /\ UNCHANGED <<agent_vars, crypto_vars, client_vars>>
CallCleanup == cleanup /\ UNCHANGED <<agent_vars, crypto_vars, client_vars>>
CallGetActive == get_active_containers /\ UNCHANGED <<agent_vars, crypto_vars, client_vars>>
DaemonStep(c) == ContainerExits(c) /\ UNCHANGED <<agent_vars, crypto_vars, client_vars>>

EngineSpecInit ==
  /\ AgentInit
  /\ ClientIdle
  /\ docker_engine = TRUE
  /\ encryption_enabled = TRUE
  /\ symmetric_key = TRUE
  /\ KeysIdle
  /\ EngineInit

EngineNext ==
  \/ \E t \in TaskIds : CallCreate(t)
  \/ \E c \in Cids : CallStart(c)
  \/ \E c \in Cids : CallExecute(c)
  \/ \E c \in Cids : CallStop(c)
  \/ \E c \in Cids, force \in BOOLEAN : CallRemove(c, force)
  \/ CallCleanupStale
  \/ CallCleanup
  \/ CallGetActive
  \/ \E c \in Cids : DaemonStep(c)

EngineSpec == EngineSpecInit /\ [][EngineNext]_vars

\* ------------------------------------------------- the request pipeline

\* An agent that is constructed and never started, without a Docker engine.
AgentParked ==
  /\ AgentInit
  /\ docker_engine = FALSE
  /\ encryption_enabled = TRUE
  /\ symmetric_key = TRUE
  /\ EngineInit
  /\ max_containers = 1
  /\ rt_status[MaxCids] = "absent"

AgentIdle == AgentParked /\ KeysIdle

CallerStarts(p) ==
  StartRequest(p) /\ UNCHANGED <<agent_vars, crypto_vars, engine_vars>>
CallerResumes(p) ==
  Resume(p) /\ UNCHANGED <<agent_vars, crypto_vars, engine_vars>>
TimePasses(d) ==
  Tick(d) /\ UNCHANGED <<agent_vars, crypto_vars, engine_vars>>

ClientSpecInit ==
  /\ ClientInit
  /\ backoff_factor = 2
  /\ max_retries <= 1
  /\ AgentIdle

ClientNext ==
  \/ \E p \in Callers : CallerStarts(p)
  \/ \E p \in Callers : CallerResumes(p)
  \/ \E d \in TickSteps : TimePasses(d)

\* _make_request called by concurrent callers, the coordinator answering
\* with any status or not at all.
ClientSpec == ClientSpecInit /\ [][ClientNext]_vars

\* Every network call ends (ClientTimeout bounds it) and every sleep ends.
ClientLiveSpec == ClientSpec /\ \A p \in Callers : WF_vars(CallerResumes(p))

\* One caller at a time: caller 1 alone uses the client, from any failure
\* count.
RetrySpecInit ==
  /\ AgentIdle
  /\ now = 0
  /\ rate_limit_requests = MaxRetriesBound + 1
  /\ request_timestamps = <<>>
  /\ request_count = 0
  /\ max_retries \in 0..MaxRetriesBound
  /\ backoff_factor \in Bases
  /\ connected \in BOOLEAN
  /\ connection_failures \in 0..1
  /\ connected => connection_failures = 0
  /\ pc = [p \in Callers |-> "idle"]
  /\ retry_count = [p \in Callers |-> 0]
  /\ wake = [p \in Callers |-> 0]
  /\ after_sleep = [p \in Callers |-> "none"]
  /\ attempts = [p \in Callers |-> 0]
  /\ sleeps = [p \in Callers |-> <<>>]
  /\ streak = [p \in Callers |-> "none"]
  /\ start_failures = [p \in Callers |-> 0]
  /\ issued = <<>>
  /\ retry_delay = [called |-> FALSE, raised |-> FALSE, delay |-> 0]

RetryNext ==
  \/ CallerStarts(1)
  \/ CallerResumes(1)

RetrySpec == RetrySpecInit /\ [][RetryNext]_vars

\* get_retry_delay called directly, for any backoff factor and any number of
\* accumulated failures.
CallGetRetryDelay ==
  /\ retry_delay' = [called |-> TRUE,
                     raised |-> get_retry_delay(backoff_factor, connection_failures).raised,
                     delay |-> get_retry_delay(backoff_factor, connection_failures).delay]
  /\ UNCHANGED <<now, rate_limit_requests, request_timestamps, request_count,
                 max_retries, backoff_factor, connected, connection_failures,
                 pc, retry_count, wake, after_sleep, attempts, sleeps, streak,
                 start_failures, issued>>
  /\ UNCHANGED <<agent_vars, crypto_vars, engine_vars>>

\* One more consecutive failure.
CallOnConnectionFailure ==
  /\ connection_failures < MaxFailures
  /\ on_connection_failure
  /\ retry_delay' = [called |-> FALSE, raised |-> FALSE, delay |-> retry_delay.delay]
  /\ UNCHANGED <<now, rate_limit_requests, request_timestamps, request_count,
                 max_retries, backoff_factor, pc, retry_count, wake,
                 after_sleep, attempts, sleeps, streak, start_failures, issued>>
  /\ UNCHANGED <<agent_vars, crypto_vars, engine_vars>>

BackoffSpecInit ==
  /\ ClientInit
  /\ rate_limit_requests = MaxRateLimit
  /\ max_retries = MaxRetriesBound
  /\ AgentIdle

BackoffNext ==
  \/ CallGetRetryDelay
  \/ CallOnConnectionFailure

BackoffSpec == BackoffSpecInit /\ [][BackoffNext]_vars

\* ------------------------------------- the channel, heartbeat and stop()

\* The agent, with or without a Docker engine (cap 1, no container left
\* over), run with its heartbeat loop and with stop() called any number of
\* times.
ChannelSpecInit ==
  /\ AgentInit
  /\ docker_engine \in BOOLEAN
  /\ CryptoInit
  /\ encryption_enabled
  /\ symmetric_key
  /\ EngineInit
  /\ max_containers = 1
  /\ \A c \in Cids : rt_status[c] = "absent"
  /\ ClientIdle

\* The steps of the websocket_handler coroutine that end one of its awaits:
\* a sleep finishes, `async for` sees the closed connection, a send of the
\* message handler returns or raises.
ReaderStep ==
  \/ ReaderWakes
  \/ ReaderSeesClose
  \/ SendBusyRejection
  \/ SendInvalidRejection
  \/ SendAcceptance
  \/ SendErrorRejection

ChannelNext ==
  \/ Start
  \/ StopBegin
  \/ StopReturnsAtGuard
  \/ StopFinish
  \/ HeartbeatSent
  \/ HeartbeatWakes
  \/ Connect
  \/ ConnectFails
  \/ ReaderExit
  \/ Disconnect
  \/ \E mt \in ModelTypes, vram \in Vrams : RecvAssignment(mt, vram)
  \/ ReaderStep
  \/ \E t \in TaskIds : ExecStep(t)

ChannelSpec == ChannelSpecInit /\ [][ChannelNext]_vars

\* The event loop runs every ready coroutine, and every await of the reader
\* ends: sleeps finish, a closed connection is noticed, sends return or raise.
ChannelLiveSpec == ChannelSpec /\ WF_vars(ReaderStep)

\* ------------------------------------------------ the heartbeat loop

\* The agent's lifecycle, its reader and its heartbeat loop, with heartbeats
\* that succeed or fail; no assignment arrives.
BeatNext ==
  \/ Start
  \/ StopBegin
  \/ StopFinish
  \/ HeartbeatSent
  \/ HeartbeatFails
  \/ HeartbeatWakes
  \/ Connect
  \/ ConnectFails
  \/ ReaderWakes
  \/ ReaderExit
  \/ Disconnect
  \/ ReaderSeesClose

BeatSpec == ChannelSpecInit /\ [][BeatNext]_vars

\* Every await of _heartbeat_loop ends: send_heartbeat returns (the request
\* has a total timeout) and asyncio.sleep finishes.
BeatLiveSpec ==
  BeatSpec /\ WF_vars(HeartbeatWakes) /\ WF_vars(HeartbeatSent \/ HeartbeatFails)

\* ----------------------------------------------- every inbound message

\* The agent fed with every kind of inbound message: assignments, cancels,
\* config updates, envelopes of unknown type and malformed messages.
MessageNext ==
  \/ Start
  \/ StopBegin
  \/ StopFinish
  \/ Connect
  \/ ConnectFails
  \/ ReaderWakes
  \/ ReaderExit
  \/ Disconnect
  \/ ReaderSeesClose
  \/ \E mt \in ModelTypes, vram \in Vrams : RecvAssignment(mt, vram)
  \/ SendBusyRejection
  \/ SendInvalidRejection
  \/ SendAcceptance
  \/ SendErrorRejection
  \/ \E t \in TaskIds : RecvCancel(t)
  \/ \E cfg \in Configs : RecvConfigUpdate(cfg)
  \/ RecvUnknown
  \/ \E kind \in MalformedKinds : RecvMalformed(kind)
  \/ \E t \in TaskIds : ExecStep(t)

MessageSpec == ChannelSpecInit /\ [][MessageNext]_vars

\* ------------------------------------------------------------------ claims

\* _execute_task(t) is between its first statement and its finally block.
Executing(t) == exec[t] \notin {"none", "start", "done"}
\* _execute_task(t) has been created and has not finished.
InFlight(t) == exec[t] \notin {"none", "done"}
CountType(seq, types) == Cardinality({i \in 1..Len(seq) : seq[i].type \in types})
Reports(seq) == CountType(seq, {"task_result", "task_error"})
Rejection(reason) == Env("task_rejected", reason)
\* The reader hands a task_assignment to the handler in this step.
AssignmentArrives == rpc = "listening" /\ h = NoMsg /\ h' # NoMsg

\* C1: at most one task execution is in flight at any time, whatever the
\* sequence of assignments, cancellations and completions.
C1_AtMostOneExecution ==
  Cardinality({t \in TaskIds : Executing(t)}) <= 1

\* An assignment that arrives while current_task is set goes to the busy
\* branch and changes nothing; the busy branch sends task_rejected with
\* `reason` when the channel is open, starts no execution and leaves
\* current_task as it is.
BusyHandling(reason) ==
  /\ (AssignmentArrives /\ current_task # None)
       => (rpc' = "h_busy" /\ current_task' = current_task /\ exec' = exec
           /\ sent' = sent)
  /\ (rpc = "h_busy" /\ rpc' # "h_busy")
       => /\ current_task' = current_task
          /\ exec' = exec
          /\ IF websocket = "open"
             THEN /\ sent' = [sent EXCEPT ![h.id] = Append(@, Rejection(reason))]
                  /\ rpc' = "listening"
             ELSE sent' = sent

C3_AcceptedBeforeExecution ==
  \A t \in TaskIds :
    (exec[t] # "none"
       \/ CountType(sent[t], {"task_status", "task_result", "task_error"}) > 0)
      => (Len(sent[t]) >= 1 /\ sent[t][1].type = "task_accepted")

\* A task whose execution has sent task_status right after task_accepted.
C3_Witness ==
  \E t \in TaskIds :
    /\ exec[t] = "load"
    /\ sent[t] = <<Env("task_accepted", ""), Env("task_status", "running")>>

\* C4: every accepted task gets exactly one terminal report (task_result or
\* task_error): never two, and one once its execution has ended.
C4_ExactlyOneTerminalReport ==
  \A t \in TaskIds :
    /\ Reports(sent[t]) <= 1
    /\ exec[t] = "done" => Reports(sent[t]) = 1

\* C5 (as stated): when a terminal report is sent, current_task is already
\* None.
C5_ReportAfterRelease ==
  [][\A t \in TaskIds :
       Reports(sent'[t]) > Reports(sent[t]) => current_task = None]_vars

\* C5 (amended): a terminal report is sent before the execution releases
\* the slot: the step that sends it leaves current_task as it is and leaves
\* the execution ahead of its finally block.
C5_ReportBeforeRelease ==
  [][\A t \in TaskIds :
       Reports(sent'[t]) > Reports(sent[t])
         => (exec'[t] \in {"result_sent", "error_sent"}
             /\ current_task' = current_task)]_vars

\* A task_result has been sent and the slot still holds the task.
C5_Witness ==
  \E t \in TaskIds :
    /\ exec[t] = "result_sent"
    /\ current_task = t
    /\ Reports(sent[t]) = 1

\* An assignment that arrives while idle and passes validation is accepted.
IdleValidAccepted ==
  (AssignmentArrives /\ current_task = None
     /\ h'.model_type \in config.supported_models
     /\ h'.vram <= config.max_vram_gb)
    => (rpc' = "h_accept" /\ current_task' = h'.id)

\* C6: once a task is accepted its execution ends, on every outcome, with
\* the slot released (current_task is None), and a valid assignment that
\* arrives while idle is accepted.
C6_EventuallyIdle ==
  /\ \A t \in TaskIds :
       InFlight(t) ~> (exec[t] = "done" /\ current_task = None)
  /\ [][IdleValidAccepted]_vars

\* A task failed, the slot was released and a later task was accepted.
C6_Witness ==
  \E t \in TaskIds, u \in TaskIds :
    /\ exec[t] = "done" /\ CountType(sent[t], {"task_error"}) = 1
    /\ u > t /\ current_task = u /\ exec[u] = "start"

\* C7: an assignment received while idle is accepted iff its model_type is
\* supported and its required_vram_gb is at most max_vram_gb; otherwise
\* task_rejected is sent, no execution starts, the agent stays idle, and a
\* rejected task is never executed later.
C7_AcceptIffValid ==
  /\ [](\A t \in TaskIds :
          CountType(sent[t], {"task_rejected"}) > 0 => exec[t] = "none")
  /\ [][/\ (AssignmentArrives /\ current_task = None)
            => IF /\ h'.model_type \in config.supported_models
                  /\ h'.vram <= config.max_vram_gb
               THEN rpc' = "h_accept" /\ current_task' = h'.id
               ELSE rpc' = "h_invalid" /\ current_task' = None /\ exec' = exec
        /\ (rpc \in {"h_invalid", "h_err"} /\ rpc' # rpc)
            => /\ current_task' = current_task
               /\ exec' = exec
               /\ (rpc = "h_invalid" /\ websocket = "open")
                    => sent' = [sent EXCEPT ![h.id] =
                                  Append(@, Rejection("Task validation failed"))]
     ]_vars

\* The handler is rejecting, while idle, a task of a supported type that asks
\* for more VRAM than the ceiling; nothing runs.
C7_Witness ==
  /\ rpc = "h_invalid"
  /\ h.model_type \in config.supported_models
  /\ h.vram > config.max_vram_gb
  /\ current_task = None
  /\ \A u \in TaskIds : exec[u] = "none"

\* C8: with encrypt_results enabled no task_result carries a result that was
\* not encrypted.
C8_NoPlainResult ==
  [][\A t \in TaskIds :
       (config.encrypt_results /\ Len(sent'[t]) > Len(sent[t])
          /\ sent'[t][Len(sent'[t])].type = "task_result")
         => sent'[t][Len(sent'[t])].info = "encrypted"]_vars

\* C9: the number of tracked containers never exceeds max_containers, and a
\* create_container call at the cap raises and changes nothing.
C9_CapNeverExceeded ==
  /\ [](Cardinality(active_containers) <= max_containers)
  /\ [][Cardinality(active_containers) >= max_containers
          => /\ active_containers' \subseteq active_containers
             /\ (engine_ret' # engine_ret /\ engine_ret'.op = "create")
                  => /\ ~engine_ret'.ok
                     /\ UNCHANGED <<active_containers, container_stats,
                                    cached_status, rt_status, rt_name>>]_vars

\* The engine tracks max_containers containers and the last call, a
\* create_container, raised.
C9_Witness ==
  /\ Cardinality(active_containers) = max_containers
  /\ engine_ret = Ret("create", FALSE, None)

\* C10: when stop() has run docker_engine.cleanup(), no container is tracked
\* any more and no container the engine tracked is left in the daemon.
C10_CleanupLeavesNone ==
  [][(docker_engine /\ phase = "stopping" /\ phase' = "stopped")
       => /\ active_containers' = {}
          /\ \A c \in active_containers : rt_status'[c] = "absent"]_vars

\* C11: a request (first attempt or retry) goes to the network exactly when
\* fewer than rate_limit_requests network attempts were started within the
\* last 60 seconds; otherwise it is rejected with 'Rate limit exceeded'
\* before any network call.
C11_RateLimitWindow ==
  [][\A p \in Callers :
       (StartRequest(p) \/ SleepEnds(p))
         => (pc'[p] = "request"
               <=> Len(Recent(issued, now')) < rate_limit_requests)]_vars

\* C12: get_retry_delay returns, for every failure count n and base, the
\* value min(300, base^n); the delays do not decrease as n grows and never
\* exceed 300.
\* min(300, base^n) for an integer base >= 1: from n = 9 on, base^n is 1 or
\* above 300.
MinPow(base, n) == Min2(DelayCap, base ^ Min2(n, 9))

C12_DelayIsCappedPower ==
  /\ [](retry_delay.called
          => /\ ~retry_delay.raised
             /\ retry_delay.delay = MinPow(backoff_factor, connection_failures)
             /\ retry_delay.delay <= DelayCap)
  /\ [][(retry_delay.called /\ retry_delay'.called) \/ ~retry_delay'.called
          \/ retry_delay'.delay >= retry_delay.delay]_vars

\* C13: one call of _make_request makes at most max_retries + 1 network
\* attempts and then ends, by returning or by raising.
C13_BoundedAttempts ==
  /\ [](\A p \in Callers : attempts[p] <= max_retries + 1)
  /\ \A p \in Callers :
       (pc[p] \in {"request", "sleeping"})
         ~> (pc[p] \in {"returned", "raised", "rate_limited"})

\* A call that got 5xx, 429 and network failures in a mix, used all its
\* retries and raised.
C13_Witness ==
  \E p \in Callers :
    /\ pc[p] = "raised"
    /\ streak[p] = "mixed"
    /\ max_retries >= 1
    /\ attempts[p] = max_retries + 1
    /\ Len(sleeps[p]) = max_retries

Fatal4xx == {st \in Statuses : st >= 400 /\ st < 500 /\ st # 429}

\* C14: a 401, a 403 or any other 4xx except 429 makes the request raise at
\* once: no sleep, no further attempt, and one attempt in all when it is the
\* first response of the call.
C14_FatalNoRetry ==
  [][\A p \in Callers, status \in Fatal4xx :
       Respond(p, status)
         => /\ pc'[p] = "raised"
            /\ sleeps'[p] = sleeps[p]
            /\ attempts'[p] = attempts[p]
            /\ streak[p] = "none" => (attempts[p] = 1 /\ sleeps[p] = <<>>)]_vars

\* A call raised after one attempt answered 401 or 403, without sleeping,
\* although retries were allowed.
C14_Witness ==
  \E p \in Callers :
    /\ pc[p] = "raised"
    /\ streak[p] = "auth"
    /\ attempts[p] = 1
    /\ sleeps[p] = <<>>
    /\ max_retries > 0

\* A 200 response resets the connection state: counter 0, connected, and
\* get_retry_delay back at base^0.
SuccessResets ==
  \A p \in Callers :
    Respond(p, 200)
      => /\ connection_failures' = 0
         /\ connected' = TRUE
         /\ get_retry_delay(backoff_factor, connection_failures').delay = 1

\* A backoff sleep begins in branch `branch` for caller p.
BackoffSleepBegins(p, branch) ==
  pc[p] = "request" /\ pc'[p] = "sleeping" /\ after_sleep'[p] = branch

\* The first backoff sleep after a success (the connection is still marked
\* connected) lasts base^0.
FirstDelayAfterSuccess(branches) ==
  \A p \in Callers, branch \in branches :
    (BackoffSleepBegins(p, branch) /\ connected /\ connection_failures = 0)
      => sleeps'[p][Len(sleeps'[p])] = 1

PolicySleeps(f0, k) ==
  [i \in 1..k |-> get_retry_delay(backoff_factor, f0 + i - 1).delay]

\* C16: a call answered only by network failures behaves as a call answered
\* only by 5xx responses: same attempts, same sleep delays, same final
\* failure counter.
C16_SamePolicy ==
  \A kind \in {"server", "net"} :
    streak[1] = kind
      => /\ sleeps[1] = PolicySleeps(start_failures[1], Len(sleeps[1]))
         /\ pc[1] = "raised"
              => /\ attempts[1] = max_retries + 1
                 /\ connection_failures = start_failures[1] + max_retries

\* The reader is past a connection that ended or an attempt that failed:
\* asleep in an except branch, or with a closed connection in hand.
ReaderInterrupted ==
  \/ rpc = "waiting"
  \/ websocket = "closed"
       /\ rpc \in {"listening", "h_busy", "h_invalid", "h_accept", "h_err"}

\* C17: while the agent is running the reader loop does not end, and after
\* every disconnect or error (normal close, abnormal close, failed connect,
\* exception of the message handler) the reader comes back to the top of its
\* loop, where it attempts a new connection if the agent still runs.
C17_ReaderReconnects ==
  /\ [](rpc = "exited" => ~running)
  /\ [](phase = "started" => rpc # "none")
  /\ ReaderInterrupted ~> (rpc = "connecting" \/ rpc = "exited")
  /\ [][(rpc = "connecting" /\ running /\ rpc' # rpc)
          => (rpc' = "listening" \/ rpc' = "waiting")]_vars

\* The agent runs, lost a connection that heartbeats had gone out on, and
\* the reader listens on a new one.
C17_Witness ==
  /\ running
  /\ rpc = "listening"
  /\ websocket = "open"
  /\ \E i \in 1..Len(beat_trace) : beat_trace[i] = "closed"

\* C18: on every connection the reader opens, the first and the
\* reconnections alike, node_auth is the first envelope sent; and the
\* heartbeat loop stays alive while the agent runs, untouched by what
\* happens to the connection and to the reader.
C18_AuthFirstHeartbeatKeeps ==
  /\ [](websocket # "none" => first_sent = "node_auth")
  /\ [][(websocket # "open" /\ websocket' = "open")
          => first_sent' = "node_auth"]_vars
  /\ [](running => heartbeat \in {"sending", "sleeping"})
  /\ [][(running /\ running' /\ (rpc' # rpc \/ websocket' # websocket))
          => heartbeat' = heartbeat]_vars

\* Heartbeats went out while connected, while disconnected and again on the
\* next connection, which began with node_auth; the agent has answered an
\* assignment and the reader listens.
C18_Witness ==
  /\ running
  /\ websocket = "open"
  /\ first_sent = "node_auth"
  /\ beat_trace = <<"open", "closed", "open">>
  /\ \E t \in TaskIds :
       /\ sent[t] # <<>>
       /\ exec[t] = "none"
       /\ rpc = "listening"
       /\ h = NoMsg

\* C19: stop() is idempotent.  Of all the calls of stop(), one at most goes
\* past the guard; a call made while the first is in progress or after it
\* returned changes nothing of the agent, the engine or the connection, and
\* closes, cancels and cleans up nothing again.
C19_StopIdempotent ==
  /\ [](stop_runs <= 1)
  /\ [][(stop_calls >= 1 /\ stop_calls' # stop_calls)
          => UNCHANGED <<running, phase, current_task, config, websocket, rpc,
                         h, exec, exec_container, sent, first_sent,
                         tasks_completed, tasks_failed, next_task, heartbeat,
                         beat_trace, stop_runs, engine_vars, crypto_vars>>]_vars

\* A second stop() was called and returned while the first is suspended in
\* its close of the connection.
C19_Witness ==
  /\ phase = "stopping"
  /\ stop_calls = 2
  /\ stop_runs = 1
  /\ websocket = "closed"

\* C20: when stop() has returned no task execution is in flight, and from
\* then on no task_status, task_result or task_error is sent.
C20_StopWaitsForWork ==
  /\ [](phase = "stopped" => \A t \in TaskIds : ~InFlight(t))
  /\ [][phase = "stopped" => sent' = sent]_vars

\* C21: when the registration is rejected (a 401, a 403, or a response
\* without success) start() leaves the agent stopped, its stop() having
\* run: running is False, and neither the heartbeat loop nor the channel
\* reader was started.
C21_RejectedStartLeavesStopped ==
  []((registration # NoResponse
        /\ (registration.status \in {401, 403} \/ ~registration.success))
       => /\ ~running
          /\ phase = "stopped"
          /\ stop_runs = 1
          /\ heartbeat = "none"
          /\ rpc = "none"
          /\ websocket = "none")

\* The coordinator answered the registration 200 without success; start()
\* raised after its stop().
C21_Witness ==
  /\ registration = [status |-> 200, success |-> FALSE]
  /\ phase = "stopped"
  /\ ~running
  /\ stop_runs = 1

\* C22: a failed heartbeat send does not end the heartbeat loop and touches
\* nothing else of the agent; while the agent runs the loop is alive, and
\* after a failure it goes on to attempt the next heartbeat unless the agent
\* is stopped meanwhile.
C22_HeartbeatSurvivesFailure ==
  /\ [][(~beat_failed /\ beat_failed')
          => /\ heartbeat' = "sleeping"
             /\ UNCHANGED <<running, phase, current_task, config, websocket,
                            rpc, h, exec, sent, tasks_completed, tasks_failed,
                            stop_calls, stop_runs>>]_vars
  /\ [](running => heartbeat \in {"sending", "sleeping"})
  /\ (beat_failed /\ heartbeat = "sleeping")
       ~> (heartbeat = "sending" \/ ~running)

\* The last heartbeat failed and the loop, of a running agent, is at its
\* next send.
C22_Witness ==
  /\ running
  /\ beat_failed
  /\ heartbeat = "sending"

\* C23: an envelope of unknown type changes nothing of the agent (no task
\* state, no configuration, no counter, not running), sends nothing and
\* leaves the reader listening on the open connection.
C23_UnknownTypeIgnored ==
  [][RecvUnknown
       => /\ UNCHANGED <<running, phase, current_task, config, exec,
                         exec_container, sent, first_sent, tasks_completed,
                         tasks_failed, next_task, engine_vars, crypto_vars>>
          /\ websocket' = "open"
          /\ rpc' = "listening"]_vars

\* An envelope of unknown type came in while a task was tracked; the task is
\* still tracked and the reader listens on the open connection.
C23_Witness ==
  /\ last_irregular = "unknown_type"
  /\ current_task # None
  /\ running
  /\ rpc = "listening"
  /\ websocket = "open"

\* C24: a malformed inbound message (invalid JSON, a task_assignment without
\* id) leaves the agent running and its task state as it was, and the
\* connection stays open with the reader listening for later messages.
C24_MalformedKeepsChannel ==
  [][\A kind \in MalformedKinds :
       RecvMalformed(kind)
         => /\ UNCHANGED <<running, current_task, exec, sent>>
            /\ websocket' = "open"
            /\ rpc' = "listening"]_vars

\* C25: a task_cancel with the id of the tracked task clears current_task
\* in the same step; a task_cancel with another id, or one that arrives
\* while no task is tracked, changes nothing.  No cancel touches anything
\* but current_task.
C25_CancelClearsTracked ==
  [][\A t \in TaskIds :
       RecvCancel(t)
         => /\ (current_task = t) => current_task' = None
            /\ (current_task # t) => current_task' = current_task
            /\ UNCHANGED <<running, phase, config, websocket, rpc, exec,
                           exec_container, sent, tasks_completed, tasks_failed,
                           next_task, engine_vars>>]_vars

\* A cancel cleared the slot of a task whose execution has not finished.
C25_Witness ==
  /\ current_task = None
  /\ \E t \in TaskIds : InFlight(t) /\ sent[t] # <<>>
  /\ rpc = "listening"
  /\ websocket = "open"

\* ---------------------------------------------------------------------
\* Signed tokens (crypto.py 366-397).  A token is its claims together with
\* what the HS256 signature was computed from: the signing key and the
\* claims at signing time.  NoClaims stands for "no payload" (None); a
\* claim of "" is a key the payload does not carry.
SecondsPerHour == 3600
MaxTokenClock == 7200
JwtExpiryHours == 1
JwtSecrets == {1, 2}
ExpiryHours == {0, JwtExpiryHours}
Payloads == [sub : {"node-a", "node-b"}, aud : {"", "coordinator"}]

\* jwt_payload = {'iat': now, 'exp': now + expiry_hours * 3600,
\*                'iss': 'neurogrid-node', **payload}
JwtPayload(payload, expiry_hours, t) ==
  [iat |-> t, exp |-> t + expiry_hours * SecondsPerHour, iss |-> "neurogrid-node",
   sub |-> payload.sub, aud |-> payload.aud]

\* jwt.encode(jwt_payload, key, algorithm='HS256')
JwtEncode(claims, key) == [claims |-> claims, key |-> key, signed |-> claims]

create_jwt_token(payload, expiry_hours, t) ==
  JwtEncode(JwtPayload(payload, expiry_hours, t), jwt_secret)

\* jwt.decode(token, self.jwt_secret, algorithms=['HS256'],
\*            options={'verify_exp': True}), in the library's order: the
\* signature, then exp, then the audience (no audience is passed, so a
\* token that carries one is refused).
SignatureValid(tok, key) == tok.key = key /\ tok.signed = tok.claims
Expired(tok, t) == tok.claims.exp <= t
AudienceAccepted(tok) == tok.claims.aud = ""
JwtDecode(tok, key, t) ==
  IF ~SignatureValid(tok, key) THEN "InvalidSignatureError"
  ELSE IF Expired(tok, t) THEN "ExpiredSignatureError"
  ELSE IF ~AudienceAccepted(tok) THEN "InvalidAudienceError"
  ELSE "ok"

\* Every error of the three is an InvalidTokenError and is answered with None.
verify_jwt_token(tok, t) ==
  IF JwtDecode(tok, jwt_secret, t) = "ok" THEN tok.claims ELSE NoClaims

TokenUnchanged == UNCHANGED <<agent_vars, engine_vars, encryption_enabled, symmetric_key,
                              codec_vars, keyfile_vars,
                              rate_limit_requests, request_timestamps, request_count,
                              max_retries, backoff_factor, connected, connection_failures,
                              pc, retry_count, wake, after_sleep, attempts, sleeps, streak,
                              start_failures, issued, retry_delay>>

CreateToken(payload, expiry_hours) ==
  /\ token' = create_jwt_token(payload, expiry_hours, now)
  /\ verified' = NotVerified
  /\ UNCHANGED <<jwt_secret, now>>
  /\ TokenUnchanged

\* A token another party signed with its own key.
ForeignToken(payload, key) ==
  /\ key # jwt_secret
  /\ token' = JwtEncode(JwtPayload(payload, JwtExpiryHours, now), key)
  /\ verified' = NotVerified
  /\ UNCHANGED <<jwt_secret, now>>
  /\ TokenUnchanged

\* Somebody edits a claim of the token without being able to sign again.
TamperToken ==
  /\ token # NoToken
  /\ \E c \in {[token.claims EXCEPT !.exp = MaxTokenClock + SecondsPerHour],
               [token.claims EXCEPT !.sub = "node-x"]} :
       /\ c # token.signed
       /\ token' = [token EXCEPT !.claims = c]
  /\ verified' = NotVerified
  /\ UNCHANGED <<jwt_secret, now>>
  /\ TokenUnchanged

TokenTimePasses ==
  /\ now < MaxTokenClock
  /\ now' = now + SecondsPerHour
  /\ verified' = NotVerified
  /\ UNCHANGED <<jwt_secret, token>>
  /\ TokenUnchanged

VerifyToken ==
  /\ token # NoToken
  /\ ~verified.called
  /\ verified' = [called |-> TRUE, raised |-> FALSE,
                  value |-> verify_jwt_token(token, now)]
  /\ UNCHANGED <<jwt_secret, token, now>>
  /\ TokenUnchanged

TokenSpecInit ==
  /\ AgentParked
  /\ ClientIdle
  /\ CodecIdle
  /\ KeyFilesIdle
  /\ jwt_secret \in JwtSecrets
  /\ token = NoToken
  /\ verified = NotVerified

TokenNext ==
  \/ \E payload \in Payloads, e \in ExpiryHours : CreateToken(payload, e)
  \/ \E payload \in Payloads, key \in JwtSecrets : ForeignToken(payload, key)
  \/ TamperToken
  \/ TokenTimePasses
  \/ VerifyToken

TokenSpec == TokenSpecInit /\ [][TokenNext]_vars

\* The token at hand was issued by create_jwt_token with this manager's key
\* and has not been altered since.
IssuedHere(tok) == tok.key = jwt_secret /\ tok.signed = tok.claims

\* C26: verify_jwt_token never raises; it answers None for an expired token,
\* for a token signed with another key and for a tampered token, and for an
\* unexpired token that create_jwt_token issued with the same key it answers
\* the issued claims.
C26_VerifyReturnsIssuedClaims ==
  verified.called =>
    /\ ~verified.raised
    /\ (Expired(token, now) \/ token.key # jwt_secret \/ token.signed # token.claims)
         => verified.value = NoClaims
    /\ (IssuedHere(token) /\ ~Expired(token, now)) => verified.value = token.claims

\* ---------------------------------------------------------------------
\* encrypt_data / decrypt_data with method 'asymmetric' (crypto.py 173-225,
\* 268-364), encryption enabled and an RSA-2048 pair loaded.  A byte string
\* is its length and what its bytes are: the text of a JSON object, the
\* text of another JSON value (a number, true, null, a quoted string),
\* text that is not JSON, or bytes that are not UTF-8.
PayloadSizes == {1, 189, 190, 191, 10000}
RsaLimit == 190
RsaBlock == 256
KeyLengthBytes == 4
IvBytes == 16
TagBytes == 16
Texts == {"json_object", "json_value", "plain", "binary"}
Raised == [type |-> "raised", size |-> 0, text |-> ""]

\* What a caller can hand to encrypt_data: Union[str, bytes, Dict].  The
\* shortest JSON object, {}, has two bytes.
CodecPayloads ==
  {x \in [type : {"str", "bytes", "dict"}, size : PayloadSizes, text : Texts] :
     /\ x.type = "dict" => x.text = "json_object"
     /\ x.type = "str" => x.text # "binary"
     /\ x.text = "json_object" => x.size >= 2}

\* json.dumps(data).encode('utf-8') | data.encode('utf-8') | data
DataBytes(x) == [size |-> x.size, text |-> x.text]

RsaEncrypt(b) == [path |-> "rsa", size |-> RsaBlock, plain |-> b]
hybrid_encrypt(b) ==
  [path |-> "hybrid", size |-> KeyLengthBytes + RsaBlock + IvBytes + TagBytes + b.size,
   plain |-> b]
PathLimit(b) == b.size > RsaLimit
encrypt_asymmetric(b) == IF PathLimit(b) THEN hybrid_encrypt(b) ELSE RsaEncrypt(b)

\* private_key.decrypt refuses what is not one OAEP block of its own key;
\* _hybrid_decrypt needs the layout _hybrid_encrypt wrote.
RsaDecrypt(c) == IF c.path = "rsa" /\ c.size = RsaBlock THEN c.plain ELSE [size |-> 0, text |-> "raise"]
hybrid_decrypt(c) == IF c.path = "hybrid" THEN c.plain ELSE [size |-> 0, text |-> "raise"]
DecryptPath(c) == IF c.size > RsaBlock THEN "hybrid" ELSE "rsa"
decrypt_asymmetric(c) == IF DecryptPath(c) = "hybrid" THEN hybrid_decrypt(c) ELSE RsaDecrypt(c)

\* base64.b64encode / b64decode: four characters for every three bytes.
B64Encode(c) == [chars |-> 4 * ((c.size + 2) \div 3), bytes |-> c]
B64Decode(s) == s.bytes

encrypt_data_asymmetric(x) == B64Encode(encrypt_asymmetric(DataBytes(x)))

\* try: json.loads(decrypted.decode('utf-8'))  except: decrypted.decode('utf-8')
JsonOrText(b) ==
  CASE b.text = "raise" -> Raised
    [] b.text = "binary" -> Raised
    [] b.text = "json_object" -> [type |-> "dict", size |-> b.size, text |-> b.text]
    [] b.text = "json_value" -> [type |-> "json_value", size |-> b.size, text |-> b.text]
    [] OTHER -> [type |-> "str", size |-> b.size, text |-> b.text]
decrypt_data_asymmetric(s) == JsonOrText(decrypt_asymmetric(B64Decode(s)))

CodecUnchanged == UNCHANGED <<agent_vars, engine_vars, client_vars, encryption_enabled,
                              symmetric_key, jwt_vars, keyfile_vars>>

EncryptPayload ==
  /\ encrypted = NoCipher
  /\ encrypted' = encrypt_data_asymmetric(data)
  /\ UNCHANGED <<data, decrypted>>
  /\ CodecUnchanged

DecryptPayload ==
  /\ encrypted # NoCipher
  /\ decrypted = NoData
  /\ decrypted' = decrypt_data_asymmetric(encrypted)
  /\ UNCHANGED <<data, encrypted>>
  /\ CodecUnchanged

CodecSpecInit ==
  /\ AgentParked
  /\ ClientIdle
  /\ JwtIdle
  /\ KeyFilesIdle
  /\ data \in CodecPayloads
  /\ encrypted = NoCipher
  /\ decrypted = NoData

CodecNext == EncryptPayload \/ DecryptPayload

CodecSpec == CodecSpecInit /\ [][CodecNext]_vars

\* C27: for every payload x of 1, 189, 190, 191 and 10000 bytes
\* decrypt(encrypt(x)) = x; payloads of at most 190 bytes take the RSA-only
\* path, larger ones the AES path with the wrapped key, and decryption
\* selects the path encryption took.
C27_HybridRoundTrips ==
  /\ encrypted # NoCipher =>
       /\ encrypted.bytes.path = (IF data.size <= RsaLimit THEN "rsa" ELSE "hybrid")
       /\ DecryptPath(encrypted.bytes) = encrypted.bytes.path
  /\ decrypted # NoData => decrypted = data

\* ---------------------------------------------------------------------
\* Key lifecycle (crypto.py 59-171, 585-608).
MaxKeys == 7
MaxRotations == 2

\* What the file system answers during one load-or-generate pass: whether
\* an existing symmetric.key reads as 32 bytes (84-93), whether both PEM
\* files read and parse (117-136), and how far the save of new keys gets
\* (both load-or-generate functions log a failed save and go on).
IoOutcomes == [sym_read : BOOLEAN, sym_write : BOOLEAN,
               rsa_read : BOOLEAN, rsa_write : {"both", "private_only", "none"}]

\* _load_or_generate_symmetric_key (77-109)
load_or_generate_symmetric_key(files, nxt, io) ==
  IF files["symmetric.key"] # 0 /\ io.sym_read
  THEN [key |-> files["symmetric.key"], files |-> files, next |-> nxt]
  ELSE [key |-> nxt,
        files |-> IF io.sym_write THEN [files EXCEPT !["symmetric.key"] = nxt] ELSE files,
        next |-> nxt + 1]

\* _load_or_generate_rsa_keys (111-171): the pair is loaded only when both
\* files exist and both load; the private key is saved first.
load_or_generate_rsa_keys(files, nxt, io) ==
  IF files["private.pem"] # 0 /\ files["public.pem"] # 0 /\ io.rsa_read
  THEN [private |-> files["private.pem"], public |-> files["public.pem"],
        files |-> files, next |-> nxt]
  ELSE [private |-> nxt, public |-> nxt,
        files |-> CASE io.rsa_write = "both" ->
                         [files EXCEPT !["private.pem"] = nxt, !["public.pem"] = nxt]
                    [] io.rsa_write = "private_only" ->
                         [files EXCEPT !["private.pem"] = nxt]
                    [] OTHER -> files,
        next |-> nxt + 1]

\* _initialize_crypto (59-71), also the tail of rotate_keys (600-602)
LoadOrGenerateAll(files, nxt, io) ==
  LET s == load_or_generate_symmetric_key(files, nxt, io)
      r == load_or_generate_rsa_keys(s.files, s.next, io)
  IN [keys |-> [symmetric |-> s.key, private |-> r.private, public |-> r.public],
      files |-> r.files, next |-> r.next]

KeyUnchanged == UNCHANGED <<agent_vars, engine_vars, client_vars, encryption_enabled,
                            jwt_vars, codec_vars>>

\* A process starts and constructs its CryptoManager.
InitializeCrypto ==
  /\ manager = "none"
  /\ next_key < MaxKeys
  /\ \E io \in IoOutcomes :
       LET got == LoadOrGenerateAll(key_files, next_key, io) IN
         /\ keys_in_use' = got.keys
         /\ key_files' = got.files
         /\ next_key' = got.next
  /\ manager' = "up"
  /\ symmetric_key' = TRUE
  /\ rotate_result' = "none"
  /\ UNCHANGED <<keys_before, backups, rotations>>
  /\ KeyUnchanged

\* The process ends; its keys live on only as far as they are on disk.
ProcessExits ==
  /\ manager = "up"
  /\ manager' = "none"
  /\ keys_before' = keys_in_use
  /\ keys_in_use' = NoKeys
  /\ symmetric_key' = FALSE
  /\ rotate_result' = "none"
  /\ UNCHANGED <<key_files, backups, next_key, rotations>>
  /\ KeyUnchanged

\* rotate_keys (585-608).  backup_<time> is created, then every *.key and
\* *.pem file is to be copied with shutil.copy2; crypto.py never imports
\* shutil, so the first copy raises NameError, which is logged and raised
\* again.  With no key file in crypto_dir neither loop runs and the two
\* load-or-generate functions are called.
\* (as if shutil were imported and the copies worked)
CopyRaisesNever(files) == FALSE
CopyRaises(files) == \E f \in KeyFileNames : files[f] # 0
RotateKeys ==
  /\ manager = "up"
  /\ rotations < MaxRotations
  /\ next_key < MaxKeys
  /\ rotations' = rotations + 1
  /\ IF CopyRaises(key_files)
     THEN /\ rotate_result' = "raised"
          /\ UNCHANGED <<key_files, keys_in_use, next_key>>
     ELSE /\ rotate_result' = "ok"
          /\ \E io \in IoOutcomes :
               LET got == LoadOrGenerateAll(key_files, next_key, io) IN
                 /\ keys_in_use' = got.keys
                 /\ key_files' = got.files
                 /\ next_key' = got.next
  /\ UNCHANGED <<manager, symmetric_key, keys_before, backups>>
  /\ KeyUnchanged

\* The first process constructs its manager in an empty crypto_dir.
KeySpecInit ==
  /\ AgentParked
  /\ ClientIdle
  /\ JwtIdle
  /\ CodecIdle
  /\ manager = "up"
  /\ \E io \in IoOutcomes :
       LET got == LoadOrGenerateAll(NoFiles, 1, io) IN
         /\ keys_in_use = got.keys
         /\ key_files = got.files
         /\ next_key = got.next
  /\ keys_before = NoKeys
  /\ backups = {}
  /\ rotations = 0
  /\ rotate_result = "none"

KeyNext == InitializeCrypto \/ ProcessExits \/ RotateKeys

KeySpec == KeySpecInit /\ [][KeyNext]_vars

Restarted == manager = "none" /\ manager' = "up" /\ keys_before # NoKeys
Generated(kind) == keys_in_use'[kind] >= next_key
FileOf(kind) == IF kind = "symmetric" THEN "symmetric.key"
                ELSE IF kind = "private" THEN "private.pem" ELSE "public.pem"

\* C28: a key is generated only when no key file of it is on disk, and after
\* a restart the symmetric key and the RSA pair in use are those the
\* process before had in use.
C28_KeysReusedAcrossRestarts ==
  [][/\ (manager' = "up" /\ keys_in_use' # keys_in_use) =>
          \A kind \in {"symmetric", "private", "public"} :
            Generated(kind) => key_files[FileOf(kind)] = 0
     /\ Restarted => keys_in_use' = keys_before]_vars

\* C29: a key file that exists is never replaced by a newly generated key
\* unless the generation it held has been archived before.
C29_NoOverwriteWithoutArchive ==
  [][\A f \in KeyFileNames :
       (key_files[f] # 0 /\ key_files'[f] # key_files[f]) => <<f, key_files[f]>> \in backups]_vars

\* C30: rotate_keys() called with a generation on disk leaves that
\* generation's files in a backup directory and puts newly generated keys,
\* different from the previous ones, in use.
C30_RotateArchivesThenRenews ==
  [][(rotations' = rotations + 1 /\ key_files # NoFiles) =>
        /\ rotate_result' = "ok"
        /\ \A f \in KeyFileNames : key_files[f] # 0 => <<f, key_files[f]>> \in backups'
        /\ \A kind \in {"symmetric", "private", "public"} :
             keys_in_use'[kind] >= next_key /\ keys_in_use'[kind] # keys_in_use[kind]]_vars

\* A symmetric key and a matching RSA pair, in memory and in crypto_dir.
UsableInMemory(keys) ==
  keys.symmetric # 0 /\ keys.private # 0 /\ keys.private = keys.public
UsableOnDisk(files) ==
  files["symmetric.key"] # 0 /\ files["private.pem"] # 0
    /\ files["private.pem"] = files["public.pem"]

C32_ExecuteOnlyWhenRunning ==
  [][\A t \in TaskIds :
       (exec[t] = "in_container" /\ exec'[t] # "in_container" /\ engine_ret'.op = "execute") =>
          /\ exec_container[t] \in active_containers
          /\ rt_status[exec_container[t]] = "running"
          /\ container_stats[exec_container[t]] = "running"]_vars

\* remove_container(c) is called in this step on a tracked instance.
RemoveCalledOn(c) ==
  /\ c \in active_containers
  /\ engine_ret'.op = "remove" /\ engine_ret'.c = c
  /\ (engine_ret' # engine_ret \/ active_containers' # active_containers)

\* remove_container takes the branch that calls stop_container
\* (docker_engine.py 540: container.status == 'running').
StopsFirst(c) == cached_status[c] = "running"

\* C33: remove always stops a running instance first: whenever
\* remove_container is called on an instance that is running, the instance
\* is stopped before it is removed.
C33_RemoveStopsRunningFirst ==
  [][\A c \in Cids : (RemoveCalledOn(c) /\ rt_status[c] = "running") => StopsFirst(c)]_vars

\* ---------------------------------------------------------------------
\* execute_in_container seen in time (docker_engine.py 385-433).
\* container.exec_run is a synchronous call of the Docker SDK inside the
\* coroutine: while the command runs in the container the whole event loop
\* waits in it.  The `timeout` parameter (390) is used nowhere in the body.
SandboxUnchanged == UNCHANGED <<agent_vars, crypto_vars, client_vars, max_containers,
                                active_containers, container_stats, cached_status,
                                rt_status, rt_name>>

\* execute_in_container(c) is called and reaches exec_run (405-411): the
\* daemon refuses a container that is not running, otherwise the command
\* starts and the call waits for it.
ExecRunBegins(c) ==
  /\ blocked_in = None
  /\ c \in active_containers
  /\ IF rt_status[c] = "running"
     THEN blocked_in' = c /\ UNCHANGED engine_ret
     ELSE blocked_in' = None /\ engine_ret' = Ret("execute", FALSE, c)
  /\ SandboxUnchanged

\* The command in the container ends by itself and exec_run returns its
\* exit code (414-424).
ExecRunReturns(c) ==
  /\ blocked_in = c
  /\ \E exit_zero \in BOOLEAN : engine_ret' = Ret("execute", exit_zero, c)
  /\ blocked_in' = None
  /\ SandboxUnchanged

\* The other engine calls run only while the event loop is not waiting.
SandboxCall ==
  /\ blocked_in = None
  /\ \/ \E t \in TaskIds : CallCreate(t)
     \/ \E c \in Cids : CallStart(c)
     \/ \E c \in Cids : CallStop(c)
     \/ \E c \in Cids, force \in BOOLEAN : CallRemove(c, force)
     \/ CallGetActive

SandboxNext ==
  \/ SandboxCall
  \/ \E c \in Cids : ExecRunBegins(c)
  \/ \E c \in Cids : ExecRunReturns(c)

SandboxSpec == EngineSpecInit /\ [][SandboxNext]_vars

\* The program's own steps are taken when they can be; whether and when the
\* command in the container ends is up to the payload.
SandboxLiveSpec ==
  SandboxSpec /\ WF_vars(SandboxCall) /\ WF_vars(\E c \in Cids : ExecRunBegins(c))

\* C34: sandbox execution is bounded by its own timeout: also when the
\* sandboxed computation never finishes, execute_in_container terminates
\* (with a failure).
C34_ExecutionIsBounded ==
  \A c \in Cids : (blocked_in = c) ~> (blocked_in = None)

\* C35: in every rolling 60-second window the number of network requests
\* actually attempted never exceeds rate_limit_requests, also with several
\* requests in flight at once and with attempts that fail at the network
\* level.
C35_AttemptsWithinLimit ==
  Len(Recent(issued, now)) <= rate_limit_requests

\* C36: the agent is never busy with nothing executing: whenever
\* current_task is set, an execution of that task is in flight or is started
\* next by the handler that took the slot; when sending task_accepted fails
\* after the slot was taken, no execution starts and the slot is released.
C36_BusyMeansExecuting ==
  current_task # None =>
    \/ InFlight(current_task)
    \/ rpc = "h_accept" /\ h.id = current_task

\* C37: the end of a task's execution releases the slot only if the slot
\* still holds that task: the late finish of a cancelled task never clears
\* current_task of another task that was accepted in the meantime.
C37_FinishReleasesOwnSlotOnly ==
  [][\A t \in TaskIds :
       (InFlight(t) /\ exec'[t] = "done" /\ current_task # t) =>
          current_task' = current_task]_vars

\* ---------------------------------------------------------------------
\* node_command 'restart' (agent.py 491-498): the handler, running inside
\* websocket_handler, awaits stop() and then start().
MaxExtraReaders == 2

\* The command arrives; stop() runs up to its first suspension (116-130).
RecvRestart ==
  /\ rpc = "listening"
  /\ websocket = "open"
  /\ running
  /\ phase = "started"
  /\ extra_readers < MaxExtraReaders
  /\ rpc' = "h_restart"
  /\ running' = FALSE
  /\ phase' = "stopping"
  /\ websocket' = "closed"
  /\ stop_calls' = Counted(stop_calls, MaxStopCalls)
  /\ stop_runs' = Counted(stop_runs, MaxStopCalls)
  /\ UNCHANGED <<current_task, config, h, exec, exec_container, sent,
                 first_sent, tasks_completed, tasks_failed, next_task,
                 docker_engine, heartbeat, beat_trace, registration, beat_failed,
                 last_irregular, extra_readers, crypto_vars, client_vars, engine_vars>>

\* stop() has returned and the handler awaits start() (86-114).  start()
\* sets running, registers, creates new background tasks and, in
\* _connect_websocket, a new websocket_handler task (303); then the handler
\* returns into the `async for` of the reader that received the command,
\* whose connection stop() has closed.  A failed start runs stop() and
\* raises through the handler.
RestartStarts ==
  /\ rpc = "h_restart"
  /\ phase = "stopped"
  /\ \E initialized \in BOOLEAN, resp \in Responses :
       /\ registration' = IF initialized THEN resp ELSE NoResponse
       /\ IF initialized /\ Registered(resp)
          THEN /\ running' = TRUE
               /\ phase' = "started"
               /\ heartbeat' = "sending"
               /\ extra_readers' = extra_readers + 1
               /\ rpc' = "listening"
               /\ UNCHANGED <<websocket, h, stop_calls, stop_runs>>
          ELSE /\ running' = FALSE
               /\ phase' = "stopped"
               /\ heartbeat' = heartbeat
               /\ extra_readers' = extra_readers
               /\ HandlerRaises
               /\ stop_calls' = Counted(stop_calls, MaxStopCalls)
               /\ stop_runs' = Counted(stop_runs, MaxStopCalls)
  /\ IF docker_engine THEN cleanup_stale_containers ELSE UNCHANGED engine_vars
  /\ UNCHANGED <<current_task, config, exec, exec_container, sent,
                 first_sent, tasks_completed, tasks_failed, next_task,
                 docker_engine, beat_trace, beat_failed, last_irregular,
                 crypto_vars, client_vars>>

\* A websocket_handler task that a restart created finds `while
\* self.running` false and ends.
ExtraReaderExits ==
  /\ extra_readers > 0
  /\ ~running
  /\ extra_readers' = extra_readers - 1
  /\ UNCHANGED <<running, phase, current_task, config, websocket, rpc, h, exec,
                 exec_container, sent, first_sent, tasks_completed, tasks_failed,
                 next_task, docker_engine, heartbeat, beat_trace, stop_calls,
                 stop_runs, registration, beat_failed, last_irregular,
                 crypto_vars, client_vars, engine_vars>>

RestartNext ==
  \/ Start
  \/ StopBegin
  \/ StopFinish
  \/ Connect
  \/ ConnectFails
  \/ ReaderWakes
  \/ ReaderExit
  \/ Disconnect
  \/ ReaderSeesClose
  \/ RecvRestart
  \/ RestartStarts
  \/ ExtraReaderExits

RestartSpec == ChannelSpecInit /\ [][RestartNext]_vars

\* websocket_handler tasks and heartbeat loops that are alive.  The metrics
\* loop is created and cancelled together with the heartbeat loop.
ReaderLoops == (IF rpc \in {"none", "exited"} THEN 0 ELSE 1) + extra_readers
HeartbeatLoops == IF heartbeat \in {"sending", "sleeping"} THEN 1 ELSE 0

\* C38: at most one channel reader loop, one heartbeat loop and one metrics
\* loop are active at any time, also after a node_command restart handled
\* from inside the channel reader.
C38_AtMostOneLoopOfEachKind ==
  ReaderLoops <= 1 /\ HeartbeatLoops <= 1

\* C39: sandbox instances do not accumulate across tasks: once a task's
\* execution has ended (completed or failed), the instance created for it
\* is no longer tracked by the engine nor present in the runtime, so a
\* later task is never refused for the instances of finished tasks.
C39_NoInstanceLeftAfterTask ==
  \A t \in TaskIds :
    (exec[t] = "done" /\ exec_container[t] # None) =>
      /\ exec_container[t] \notin active_containers
      /\ rt_status[exec_container[t]] = "absent"

\* The first task the coordinator assigns.  While it is in flight nothing
\* but a task_cancel naming it clears its slot: a second task is accepted
\* only once the slot is free, and the first task's own finish ends its
\* flight in the same step.  So it is in flight without the slot exactly
\* after its cancellation was handled.
FirstTask == CHOOSE t \in TaskIds : \A u \in TaskIds : t <= u
CancelledInFlight(t) == InFlight(t) /\ current_task # t

\* C40: after a task_cancel for the tracked task has been handled, the agent
\* sends no task_result or task_error for that task and does not count it
\* in tasks_completed.
C40_CancelledTaskStaysSilent ==
  [][(CancelledInFlight(FirstTask) /\ exec'[FirstTask] # exec[FirstTask]) =>
        /\ Reports(sent'[FirstTask]) = Reports(sent[FirstTask])
        /\ tasks_completed' = tasks_completed]_vars

====
